---- MODULE Spec2Model ----
(***************************************************************************)
(* harmony-data-migration.  Machines over disjoint variables:              *)
(*   Spec           split_sql_statements of mysql_sql_executor.py          *)
(*   ExecSpec       execute_sql_file of mysql_sql_executor.py              *)
(*   TranslateSpec  convert_sql_server_to_mysql of sql_server_to_mysql.py  *)
(*   ConvertSpec    its callback process_create_table, line by line        *)
(*   MigrateSpec    main of migrate_sql_server_to_mysql.py, with the       *)
(*                  executor subprocess running execute_sql_file           *)
(*   PipelineSpec   convert_sql_server_to_mysql, then                      *)
(*                  split_sql_statements on its output                     *)
(*                                                                         *)
(* Text is a sequence of one-character strings.  Python indices are kept   *)
(* 0-based in the variables that the code indexes with (i, positions       *)
(* returned by find/rfind/match.start); CharAt converts.                   *)
(***************************************************************************)
EXTENDS Integers, Sequences, FiniteSets, TLC

(***************************************************************************)
(* Bounds of the model.                                                    *)
(***************************************************************************)
\* longest text drawn exhaustively over Alphabet
MaxLen == 4
\* most fragments concatenated into one INSERT document
MaxFrags == 3
\* most column lines in one CREATE TABLE body
MaxCols == 3
\* most statements in one executed file
MaxStatements == 3
\* most blocks in one translated document
MaxBlocks == 2

(***************************************************************************)
(* Python str / re primitives used by the code.                            *)
(***************************************************************************)
\* str.isspace of one character, the class \s of re
IsSpace(c) ==
    c \in {" ", "\t", "\n", "\r"}

\* s[k] with a Python (0-based) index; "" stands for an index out of range
CharAt(s, k) ==
    IF k >= 0 /\ k < Len(s) THEN s[k + 1] ELSE ""

\* s[a:b] of Python, 0 <= a, b clipped to len(s)
Slice(s, a, b) ==
    SubSeq(s, a + 1, IF b > Len(s) THEN Len(s) ELSE b)

\* number of leading whitespace characters of s
LeadingSpaces(s) ==
    IF \A k \in 1..Len(s) : IsSpace(s[k])
    THEN Len(s)
    ELSE (CHOOSE k \in 1..Len(s) :
              /\ ~IsSpace(s[k])
              /\ \A j \in 1..(k - 1) : IsSpace(s[j])) - 1

\* str.rstrip()
RStrip(s) ==
    IF \A k \in 1..Len(s) : IsSpace(s[k])
    THEN << >>
    ELSE SubSeq(s, 1, CHOOSE k \in 1..Len(s) :
                          /\ ~IsSpace(s[k])
                          /\ \A j \in (k + 1)..Len(s) : IsSpace(s[j]))

\* str.strip()
Strip(s) ==
    LET r == RStrip(s)
    IN  SubSeq(r, LeadingSpaces(r) + 1, Len(r))

LowerLetters ==
    << "a", "b", "c", "d", "e", "f", "g", "h", "i", "j", "k", "l", "m",
       "n", "o", "p", "q", "r", "s", "t", "u", "v", "w", "x", "y", "z" >>

UpperLetters ==
    << "A", "B", "C", "D", "E", "F", "G", "H", "I", "J", "K", "L", "M",
       "N", "O", "P", "Q", "R", "S", "T", "U", "V", "W", "X", "Y", "Z" >>

UpperChar(c) ==
    IF \E k \in 1..Len(LowerLetters) : LowerLetters[k] = c
    THEN UpperLetters[CHOOSE k \in 1..Len(LowerLetters) : LowerLetters[k] = c]
    ELSE c

\* str.upper()
Upper(s) ==
    [k \in 1..Len(s) |-> UpperChar(s[k])]

\* pat occurs in s at Python index p
MatchAt(s, p, pat) ==
    /\ p >= 0
    /\ p + Len(pat) <= Len(s)
    /\ \A k \in 1..Len(pat) : s[p + k] = pat[k]

\* pat in s
Contains(s, pat) ==
    \E p \in 0..Len(s) : MatchAt(s, p, pat)

\* str.startswith
StartsWith(s, pat) ==
    MatchAt(s, 0, pat)

\* str.endswith
EndsWith(s, pat) ==
    MatchAt(s, Len(s) - Len(pat), pat)

\* str.find(pat, from): the least index >= from where pat occurs, or -1
Find(s, pat, from) ==
    IF \E p \in from..Len(s) : MatchAt(s, p, pat)
    THEN CHOOSE p \in from..Len(s) :
             /\ MatchAt(s, p, pat)
             /\ \A q \in from..(p - 1) : ~MatchAt(s, q, pat)
    ELSE -1

\* str.rfind(c) for a one-character c: the greatest index, or -1
RFind(s, c) ==
    IF \E k \in 1..Len(s) : s[k] = c
    THEN (CHOOSE k \in 1..Len(s) :
              /\ s[k] = c
              /\ \A j \in (k + 1)..Len(s) : s[j] # c) - 1
    ELSE -1

RECURSIVE CountFrom(_, _, _)
CountFrom(s, pat, from) ==
    LET p == Find(s, pat, from)
    IN  IF p < 0 THEN 0 ELSE 1 + CountFrom(s, pat, p + Len(pat))

\* str.count(pat): non-overlapping occurrences, pat non-empty
Count(s, pat) ==
    CountFrom(s, pat, 0)

RECURSIVE ReplaceFrom(_, _, _, _)
ReplaceFrom(s, pat, rep, from) ==
    LET p == Find(s, pat, from)
    IN  IF p < 0
        THEN Slice(s, from, Len(s))
        ELSE Slice(s, from, p) \o rep \o ReplaceFrom(s, pat, rep, p + Len(pat))

\* str.replace(pat, rep), pat non-empty
Replace(s, pat, rep) ==
    ReplaceFrom(s, pat, rep, 0)

(***************************************************************************)
(* mysql_sql_executor.py: preprocessing and comment removal.               *)
(***************************************************************************)
\* html_entities, in dict order; the entries whose replacement is ASCII
html_entities ==
    << << << "&", "n", "b", "s", "p", ";" >>, << " " >> >>,
       << << "&", "l", "t", ";" >>, << "<" >> >>,
       << << "&", "g", "t", ";" >>, << ">" >> >>,
       << << "&", "a", "m", "p", ";" >>, << "&" >> >>,
       << << "&", "q", "u", "o", "t", ";" >>, << "\"" >> >>,
       << << "&", "a", "p", "o", "s", ";" >>, << "'" >> >> >>

RECURSIVE ReplaceEntities(_, _)
ReplaceEntities(s, k) ==
    IF k > Len(html_entities)
    THEN s
    ELSE ReplaceEntities(Replace(s, html_entities[k][1], html_entities[k][2]), k + 1)

\* preprocess_sql_content: the chain of str.replace over html_entities
preprocess_sql_content(s) ==
    ReplaceEntities(s, 1)

RECURSIVE StripLineCommentsFrom(_, _)
StripLineCommentsFrom(s, from) ==
    LET p == Find(s, << "-", "-" >>, from)
    IN  IF p < 0
        THEN Slice(s, from, Len(s))
        ELSE LET e == Find(s, << "\n" >>, p)
                 stop == IF e < 0 THEN Len(s) ELSE e
             IN  Slice(s, from, p) \o StripLineCommentsFrom(s, stop)

\* re.sub(r'--.*$', '', s, flags=re.MULTILINE)
StripLineComments(s) ==
    StripLineCommentsFrom(s, 0)

RECURSIVE StripBlockCommentsFrom(_, _)
StripBlockCommentsFrom(s, from) ==
    LET p == Find(s, << "/", "*" >>, from)
        q == IF p < 0 THEN -1 ELSE Find(s, << "*", "/" >>, p + 2)
    IN  IF q < 0
        THEN Slice(s, from, Len(s))
        ELSE Slice(s, from, p) \o StripBlockCommentsFrom(s, q + 2)

\* re.sub(r'/\*.*?\*/', '', s, flags=re.DOTALL)
StripBlockComments(s) ==
    StripBlockCommentsFrom(s, 0)

(***************************************************************************)
(* split_sql_statements: the post-passes, as functions of one statement.   *)
(***************************************************************************)
kwINSERT == << "I", "N", "S", "E", "R", "T" >>
kwINTO == << "I", "N", "T", "O" >>
kwINSERT_INTO == << "I", "N", "S", "E", "R", "T", " ", "I", "N", "T", "O" >>
kwVALUES == << "V", "A", "L", "U", "E", "S" >>

\* number of whitespace characters of s from Python index p on
SpacesAt(s, p) ==
    LeadingSpaces(Slice(s, p, Len(s)))

\* re.match(r'INSERT\s+INTO', s[p:], re.IGNORECASE)
InsertIntoAt(s, p) ==
    /\ MatchAt(Upper(s), p, kwINSERT)
    /\ SpacesAt(s, p + Len(kwINSERT)) >= 1
    /\ MatchAt(Upper(s), p + Len(kwINSERT) + SpacesAt(s, p + Len(kwINSERT)), kwINTO)

RECURSIVE SortedSeq(_)
SortedSeq(S) ==
    IF S = {}
    THEN << >>
    ELSE LET m == CHOOSE x \in S : \A y \in S : x <= y
         IN  << m >> \o SortedSeq(S \ {m})

\* [m.start() for m in re.finditer(r'INSERT\s+INTO', stmt, re.IGNORECASE)]
insert_positions(stmt) ==
    SortedSeq({p \in 0..Len(stmt) : InsertIntoAt(stmt, p)})

\* re.search(r'VALUES\s*\([^)]*\)\s*;?\s*$', s, re.IGNORECASE | re.DOTALL)
values_match(s) ==
    \E p \in 0..Len(s) :
        /\ MatchAt(Upper(s), p, kwVALUES)
        /\ LET a == p + Len(kwVALUES) + SpacesAt(s, p + Len(kwVALUES))
               b == Find(s, << ")" >>, a)
               rest == Slice(s, b + 1, Len(s))
           IN  /\ CharAt(s, a) = "("
               /\ b >= 0
               /\ \A k \in 1..Len(rest) : IsSpace(rest[k]) \/ rest[k] = ";"
               /\ Cardinality({k \in 1..Len(rest) : rest[k] = ";"}) <= 1

\* one fragment of a statement holding several INSERT INTO
SubStatement(stmt, start_pos, end_pos) ==
    LET sub_stmt == Strip(Slice(stmt, start_pos, end_pos))
        last_paren == RFind(sub_stmt, ")")
    IN  IF values_match(sub_stmt)
        THEN IF ~EndsWith(sub_stmt, << ";" >>)
             THEN sub_stmt \o << ";" >>
             ELSE sub_stmt
        ELSE IF last_paren > 0
             THEN Slice(sub_stmt, 0, last_paren + 1) \o << ";" >>
             ELSE RStrip(sub_stmt) \o << ";" >>

\* a statement with at most one INSERT INTO
SingleStatement(stmt) ==
    LET last_paren == RFind(stmt, ")")
    IN  IF /\ StartsWith(Upper(stmt), kwINSERT)
           /\ ~EndsWith(RStrip(stmt), << ";" >>)
           /\ Contains(Upper(stmt), kwVALUES)
        THEN IF last_paren > 0
             THEN Slice(stmt, 0, last_paren + 1) \o << ";" >>
             ELSE RStrip(stmt) \o << ";" >>
        ELSE stmt

\* a split that emits the fragments last first
MultiInsertSplitReversed(stmt) ==
    LET pos == insert_positions(stmt)
        n == Len(pos)
    IN  IF Count(Upper(stmt), kwINSERT_INTO) > 1
        THEN [k \in 1..n |->
                 SubStatement(stmt, pos[n + 1 - k],
                              IF n + 1 - k < n THEN pos[n + 2 - k] ELSE Len(stmt))]
        ELSE << SingleStatement(stmt) >>

\* the statements one statement of the primary scan contributes
MultiInsertSplit(stmt) ==
    LET pos == insert_positions(stmt)
    IN  IF Count(Upper(stmt), kwINSERT_INTO) > 1
        THEN [k \in 1..Len(pos) |->
                 SubStatement(stmt, pos[k],
                              IF k < Len(pos) THEN pos[k + 1] ELSE Len(stmt))]
        ELSE << SingleStatement(stmt) >>

\* where, within stmt, each contributed statement starts
MultiInsertOffsets(stmt) ==
    LET pos == insert_positions(stmt)
    IN  IF Count(Upper(stmt), kwINSERT_INTO) > 1 THEN pos ELSE << 0 >>

RECURSIVE QuoteCountFrom(_, _, _)
QuoteCountFrom(stmt, k, esc) ==
    IF k > Len(stmt)
    THEN 0
    ELSE IF esc
         THEN QuoteCountFrom(stmt, k + 1, FALSE)
         ELSE IF stmt[k] = "\\"
              THEN QuoteCountFrom(stmt, k + 1, TRUE)
              ELSE (IF stmt[k] = "'" THEN 1 ELSE 0)
                   + QuoteCountFrom(stmt, k + 1, FALSE)

\* quote_count of the filter pass: single quotes not preceded by an escape
quote_count(stmt) ==
    QuoteCountFrom(stmt, 1, FALSE)

\* the filter pass drops this statement
Dropped(stmt) ==
    \/ Strip(stmt) = << >>
    \/ /\ StartsWith(Upper(Strip(stmt)), kwINSERT)
       /\ ~Contains(Upper(Strip(stmt)), kwVALUES)

\* the filter pass's repair of an odd number of single quotes
RepairQuotes(stmt) ==
    LET s == Strip(stmt)
        last_quote_pos == RFind(s, "'")
    IN  IF quote_count(s) % 2 # 0 /\ last_quote_pos > 0
        THEN Slice(s, 0, last_quote_pos + 1) \o << "'" >>
             \o Slice(s, last_quote_pos + 1, Len(s))
        ELSE s

(***************************************************************************)
(* The documents the splitter is run on.                                   *)
(***************************************************************************)
Alphabet ==
    {"'", "\"", ";", "(", ")", "\\", " ", "a"}

\* every text over Alphabet of length at most n
RECURSIVE TextsUpTo(_)
TextsUpTo(n) ==
    IF n = 0
    THEN {<< >>}
    ELSE LET shorter == TextsUpTo(n - 1)
         IN  shorter \cup {Append(t, c) : t \in shorter, c \in Alphabet}

Fragments ==
    { << "I", "N", "S", "E", "R", "T", " ", "I", "N", "T", "O", " ", "t", " ",
         "V", "A", "L", "U", "E", "S", " ", "(", "1", ")" >>,
      << "I", "N", "S", "E", "R", "T", " ", "I", "N", "T", "O", " ", "t", " " >>,
      << ";" >>,
      << "'" >>,
      << " ", "x" >> }

\* every concatenation of at most n fragments
RECURSIVE FragmentDocs(_)
FragmentDocs(n) ==
    IF n = 0
    THEN {<< >>}
    ELSE LET shorter == FragmentDocs(n - 1)
         IN  shorter \cup {t \o f : t \in shorter, f \in Fragments}

\* SELECT 'a;b' FROM t;
ExSemicolonInString ==
    << "S", "E", "L", "E", "C", "T", " ", "'", "a", ";", "b", "'", " ",
       "F", "R", "O", "M", " ", "t", ";" >>

\* INSERT INTO t VALUES ('it''s ok');
ExDoubledQuote ==
    << "I", "N", "S", "E", "R", "T", " ", "I", "N", "T", "O", " ", "t", " ",
       "V", "A", "L", "U", "E", "S", " ", "(", "'", "i", "t", "'", "'", "s",
       " ", "o", "k", "'", ")", ";" >>

\* CREATE TABLE t (a INT, b INT);
ExNestedParens ==
    << "C", "R", "E", "A", "T", "E", " ", "T", "A", "B", "L", "E", " ", "t",
       " ", "(", "a", " ", "I", "N", "T", ",", " ", "b", " ", "I", "N", "T",
       ")", ";" >>

\* SELECT 'a\nb'; SELECT 2;   (backslash, n: one escaped character)
ExEscapedChar ==
    << "S", "E", "L", "E", "C", "T", " ", "'", "a", "\\", "n", "b", "'", ";",
       " ", "S", "E", "L", "E", "C", "T", " ", "2", ";" >>

\* SELECT 'a\b''c'; x;   (a doubled quote after an escape)
ExEscapeThenDoubled ==
    << "S", "E", "L", "E", "C", "T", " ", "'", "a", "\\", "b", "'", "'", "c",
       "'", ";", " ", "x", ";" >>

\* INSERT INTO a VALUES ("INSERT INTO")
ExInsertInDoubleQuotes ==
    << "I", "N", "S", "E", "R", "T", " ", "I", "N", "T", "O", " ", "a", " ",
       "V", "A", "L", "U", "E", "S", " ", "(", "\"", "I", "N", "S", "E", "R",
       "T", " ", "I", "N", "T", "O", "\"", ")" >>

\* INSERT INTO a VALUES ('INSERT INTO')
ExInsertInSingleQuotes ==
    << "I", "N", "S", "E", "R", "T", " ", "I", "N", "T", "O", " ", "a", " ",
       "V", "A", "L", "U", "E", "S", " ", "(", "'", "I", "N", "S", "E", "R",
       "T", " ", "I", "N", "T", "O", "'", ")" >>

\* SELECT ("--"); SELECT 2;
ExCommentMarkerInString ==
    << "S", "E", "L", "E", "C", "T", " ", "(", "\"", "-", "-", "\"", ")", ";",
       " ", "S", "E", "L", "E", "C", "T", " ", "2", ";" >>

\* a /* c */ ; b -- d <newline> ; [c;] {d;} &apos;e;&apos;;
ExCommentsAndBrackets ==
    << "a", " ", "/", "*", " ", "c", " ", "*", "/", " ", ";", " ", "b", " ",
       "-", "-", " ", "d", "\n", ";", " ", "[", "c", ";", "]", " ", "{", "d",
       ";", "}", " ", "&", "a", "p", "o", "s", ";", "e", ";", "&", "a", "p",
       "o", "s", ";", ";" >>

Examples ==
    { ExSemicolonInString, ExDoubledQuote, ExNestedParens, ExEscapedChar,
      ExEscapeThenDoubled, ExInsertInDoubleQuotes, ExInsertInSingleQuotes,
      ExCommentMarkerInString, ExCommentsAndBrackets }

Inputs ==
    TextsUpTo(MaxLen) \cup FragmentDocs(MaxFrags) \cup Examples

(***************************************************************************)
(* State.                                                                  *)
(***************************************************************************)
VARIABLES
    raw,                 \* the argument of split_sql_statements
    pc,                  \* start, scan, post, filter, done
    sql_content,         \* the text after preprocessing and comment removal
    statements,          \* result of the primary scan
    current_statement,
    in_string,
    string_char,         \* "None" for None
    escape_next,
    paren_count,
    bracket_count,
    brace_count,
    i,                   \* the scan index (0-based)
    final_statements,    \* result of the multi-INSERT pass
    filtered_statements, \* the list returned
    origins,             \* history: index in sql_content where each statement
                         \* of the latest list starts
    max_read,            \* history: greatest index of sql_content read
    cpc,                 \* process_create_table: idle, match, lines, done
    table_name,          \* match.group(2)
    table_body,          \* match.group(3)
    lines,               \* table_body.split('\n')
    line_no,             \* the index of the loop over lines (0-based)
    processed_lines,
    source_lines,        \* history: the stripped source line of each
                         \* element of processed_lines
    primary_key_col,     \* None or the candidate column name
    new_table_body,
    replacement,         \* the text process_create_table returns
    epc,                 \* execute_sql_file: idle, start, parsed, charset,
                         \* loop, finally, returned
    dry_run,
    total_statements,    \* len(valid_statements)
    stmt_index,          \* i of the loop of line 551; 0 before the loop
    success_count,
    error_count,
    connection,          \* "None", or the state of the object: open, closed
    cursor,              \* "None", or the state of the object: open, closed
    open_connections,    \* history: connections opened and not closed
    error_log,           \* the records of sql_execution_errors.jsonl
    executed,            \* history: the statements passed to cursor.execute
    outcomes,            \* history: "ok" or the call that raised, per statement
    boundaries,          \* history: the commits and rollbacks completed
    summaries,           \* history: the calls of print_execution_summary
    raised,              \* an exception is propagating
    returned_value,      \* "None" until execute_sql_file returns
    tpc,                 \* convert_sql_server_to_mysql: idle, comments,
                         \* drop, identity, lock, collate, unicode, types,
                         \* go, split, filter, rewrite, collapse, done
    source,              \* the argument sql_content
    content,             \* the local sql_content as it is rewritten
    all_lines,           \* lines of line 229
    line_index,          \* i of the loop of line 233
    output_lines,        \* processed_lines of line 230
    skip_everything,
    created,             \* the texts process_create_table returned
    converted,           \* the text convert_sql_server_to_mysql returns
    application,         \* 1, or 2 when the input is the first output
    first_source,        \* history: the argument of the first application
    first_created,       \* history: created of the first application
    mpc,                 \* main of migrate_sql_server_to_mysql.py: idle,
                         \* start, config, convert, execute, executor_main,
                         \* executor_batch, executed, done
    sql_file_exists,     \* os.path.exists(sql_file), line 56
    database_set,        \* db_config['database'] is not empty, line 77
    execute_only,        \* args.execute_only
    convert_only,        \* args.convert_only
    convert_exit,        \* "None", or the exit status of the convert
                         \* subprocess: "0", "1"
    executor_exit,       \* "None", or the exit status of the executor
                         \* subprocess: "0", "1"
    completion_reported, \* line 110 has printed
    exit_code,           \* "None" until main returns: "0", "1"
    ppc,                 \* translate-then-split: idle, reference,
                         \* translate, final
    reference_statements \* history: what split_sql_statements returns
                         \* for the untranslated text

split_state ==
    << raw, pc, sql_content, statements, current_statement, in_string,
       string_char, escape_next, paren_count, bracket_count, brace_count, i,
       final_statements, filtered_statements, origins, max_read >>

convert_state ==
    << cpc, table_name, table_body, lines, line_no, processed_lines,
       source_lines, primary_key_col, new_table_body, replacement >>

exec_state ==
    << epc, dry_run, total_statements, stmt_index, success_count,
       error_count, connection, cursor, open_connections, error_log,
       executed, outcomes, boundaries, summaries, raised, returned_value >>

translate_state ==
    << tpc, source, content, all_lines, line_index, output_lines,
       skip_everything, created, converted, application, first_source,
       first_created >>

migrate_state ==
    << mpc, sql_file_exists, database_set, execute_only, convert_only,
       convert_exit, executor_exit, completion_reported, exit_code >>

pipeline_state ==
    << ppc, reference_statements >>

vars ==
    << split_state, convert_state, exec_state, translate_state,
       migrate_state, pipeline_state >>

\* the variables that split_sql_statements, process_create_table,
\* execute_sql_file and convert_sql_server_to_mysql leave alone
outside_split ==
    << convert_state, exec_state, translate_state, migrate_state,
       pipeline_state >>

outside_convert ==
    << split_state, exec_state, translate_state, migrate_state,
       pipeline_state >>

outside_exec ==
    << split_state, convert_state, translate_state, migrate_state,
       pipeline_state >>

outside_translate ==
    << split_state, convert_state, exec_state, migrate_state,
       pipeline_state >>

\* the variables that main of migrate_sql_server_to_mysql.py leaves alone
\* when it is not inside execute_sql_file
outside_migrate ==
    << split_state, convert_state, translate_state, pipeline_state >>

\* the variables that translating and then splitting leaves alone
outside_pipeline ==
    << convert_state, exec_state, migrate_state >>

scanner ==
    << in_string, string_char, escape_next, paren_count, bracket_count,
       brace_count >>

\* None of Python, for primary_key_col; a matched column name is never empty
None ==
    << >>

\* a call of process_create_table has not been entered
ConvertIdle ==
    /\ cpc = "idle"
    /\ table_name = << >>
    /\ table_body = << >>
    /\ lines = << >>
    /\ line_no = 0
    /\ processed_lines = << >>
    /\ source_lines = << >>
    /\ primary_key_col = None
    /\ new_table_body = << >>
    /\ replacement = << >>

\* a call of execute_sql_file has not been entered
ExecIdle ==
    /\ epc = "idle"
    /\ dry_run = FALSE
    /\ total_statements = 0
    /\ stmt_index = 0
    /\ success_count = 0
    /\ error_count = 0
    /\ connection = "None"
    /\ cursor = "None"
    /\ open_connections = 0
    /\ error_log = << >>
    /\ executed = << >>
    /\ outcomes = << >>
    /\ boundaries = << >>
    /\ summaries = << >>
    /\ raised = FALSE
    /\ returned_value = "None"

\* main of migrate_sql_server_to_mysql.py has not been entered
MigrateIdle ==
    /\ mpc = "idle"
    /\ sql_file_exists = FALSE
    /\ database_set = FALSE
    /\ execute_only = FALSE
    /\ convert_only = FALSE
    /\ convert_exit = "None"
    /\ executor_exit = "None"
    /\ completion_reported = FALSE
    /\ exit_code = "None"

\* no translated text is being split
PipelineIdle ==
    /\ ppc = "idle"
    /\ reference_statements = << >>

\* a call of convert_sql_server_to_mysql has not been entered
TranslateIdle ==
    /\ tpc = "idle"
    /\ source = << >>
    /\ content = << >>
    /\ all_lines = << >>
    /\ line_index = 0
    /\ output_lines = << >>
    /\ skip_everything = FALSE
    /\ created = << >>
    /\ converted = << >>
    /\ application = 1
    /\ first_source = << >>
    /\ first_created = << >>

Init ==
    /\ raw \in Inputs
    /\ pc = "start"
    /\ sql_content = << >>
    /\ statements = << >>
    /\ current_statement = << >>
    /\ in_string = FALSE
    /\ string_char = "None"
    /\ escape_next = FALSE
    /\ paren_count = 0
    /\ bracket_count = 0
    /\ brace_count = 0
    /\ i = 0
    /\ final_statements = << >>
    /\ filtered_statements = << >>
    /\ origins = << >>
    /\ max_read = -1
    /\ ConvertIdle
    /\ ExecIdle
    /\ TranslateIdle
    /\ MigrateIdle
    /\ PipelineIdle

(***************************************************************************)
(* split_sql_statements, lines 261-277: preprocessing, comment removal and *)
(* the scanner's initial state.                                            *)
(***************************************************************************)
Preprocess ==
    /\ pc = "start"
    /\ sql_content' =
           StripBlockComments(StripLineComments(preprocess_sql_content(raw)))
    /\ pc' = "scan"
    /\ UNCHANGED << outside_split, raw, statements, current_statement, scanner, i,
                    final_statements, filtered_statements, origins, max_read >>

(***************************************************************************)
(* One iteration of the scan loop, lines 278-358.                          *)
(***************************************************************************)
char ==
    CharAt(sql_content, i)

InLoop ==
    pc = "scan" /\ i < Len(sql_content)

\* backslash_count of lines 299-303: the backslashes right before index k
RECURSIVE BackslashesBefore(_, _)
BackslashesBefore(s, k) ==
    IF k - 1 >= 0 /\ CharAt(s, k - 1) = "\\"
    THEN 1 + BackslashesBefore(s, k - 1)
    ELSE 0

IsBackslashStep ==
    char = "\\" /\ in_string

IsQuoteStep ==
    ~IsBackslashStep /\ char \in {"'", "\""} /\ ~escape_next

\* counters whose closers subtract without a floor
CountersUnfloored ==
    IF in_string
    THEN << paren_count, bracket_count, brace_count >>
    ELSE << IF char = "(" THEN paren_count + 1
            ELSE IF char = ")" THEN paren_count - 1
            ELSE paren_count,
            IF char = "[" THEN bracket_count + 1
            ELSE IF char = "]" THEN bracket_count - 1
            ELSE bracket_count,
            IF char = "{" THEN brace_count + 1
            ELSE IF char = "}" THEN brace_count - 1
            ELSE brace_count >>

\* the counters after lines 332-344
CountersAfter ==
    IF in_string
    THEN << paren_count, bracket_count, brace_count >>
    ELSE << IF char = "(" THEN paren_count + 1
            ELSE IF char = ")" THEN (IF paren_count - 1 > 0 THEN paren_count - 1 ELSE 0)
            ELSE paren_count,
            IF char = "[" THEN bracket_count + 1
            ELSE IF char = "]" THEN (IF bracket_count - 1 > 0 THEN bracket_count - 1 ELSE 0)
            ELSE bracket_count,
            IF char = "{" THEN brace_count + 1
            ELSE IF char = "}" THEN (IF brace_count - 1 > 0 THEN brace_count - 1 ELSE 0)
            ELSE brace_count >>

\* a terminator test that forgets the string state
IsTerminatorInString ==
    /\ char = ";"
    /\ CountersAfter = << 0, 0, 0 >>

\* a terminator test that looks at the parentheses only
IsTerminatorParensOnly ==
    /\ char = ";"
    /\ ~in_string
    /\ CountersAfter[1] = 0

\* the condition of line 347
IsTerminator ==
    /\ char = ";"
    /\ ~in_string
    /\ CountersAfter = << 0, 0, 0 >>

\* lines 282-286
ScanBackslash ==
    /\ InLoop
    /\ IsBackslashStep
    /\ escape_next' = TRUE
    /\ current_statement' = Append(current_statement, char)
    /\ i' = i + 1
    /\ max_read' = IF i > max_read THEN i ELSE max_read
    /\ UNCHANGED << outside_split, raw, pc, sql_content, statements, in_string, string_char,
                    paren_count, bracket_count, brace_count, final_statements,
                    filtered_statements, origins >>

\* lines 289-296
ScanOpenQuote ==
    /\ InLoop
    /\ IsQuoteStep
    /\ ~in_string
    /\ in_string' = TRUE
    /\ string_char' = char
    /\ current_statement' = Append(current_statement, char)
    /\ i' = i + 1
    /\ max_read' = IF i > max_read THEN i ELSE max_read
    /\ UNCHANGED << outside_split, raw, pc, sql_content, statements, escape_next, paren_count,
                    bracket_count, brace_count, final_statements,
                    filtered_statements, origins >>

\* a look-ahead that forgets the bounds check
LookAheadUnchecked ==
    TRUE

\* the bounds check of line 308, made before sql_content[i + 1] is read
LookAheadInRange ==
    i + 1 < Len(sql_content)

\* the look-ahead of line 308 finds the same quote again
IsDoubled ==
    LookAheadInRange /\ CharAt(sql_content, i + 1) = char

\* lines 297-324
ScanSameQuote ==
    /\ InLoop
    /\ IsQuoteStep
    /\ in_string
    /\ char = string_char
    /\ IF BackslashesBefore(sql_content, i) % 2 = 0
       THEN IF IsDoubled
            THEN /\ current_statement' = current_statement \o << char, char >>
                 /\ i' = i + 2
                 /\ max_read' = IF LookAheadInRange /\ i + 1 > max_read
                                THEN i + 1
                                ELSE IF i > max_read THEN i ELSE max_read
                 /\ UNCHANGED << in_string, string_char >>
            ELSE /\ in_string' = FALSE
                 /\ string_char' = "None"
                 /\ current_statement' = Append(current_statement, char)
                 /\ i' = i + 1
                 /\ max_read' = IF LookAheadInRange /\ i + 1 > max_read
                                THEN i + 1
                                ELSE IF i > max_read THEN i ELSE max_read
       ELSE /\ current_statement' = Append(current_statement, char)
            /\ i' = i + 1
            /\ max_read' = IF i > max_read THEN i ELSE max_read
            /\ UNCHANGED << in_string, string_char >>
    /\ UNCHANGED << outside_split, raw, pc, sql_content, statements, escape_next, paren_count,
                    bracket_count, brace_count, final_statements,
                    filtered_statements, origins >>

\* lines 325-329
ScanOtherQuote ==
    /\ InLoop
    /\ IsQuoteStep
    /\ in_string
    /\ char # string_char
    /\ current_statement' = Append(current_statement, char)
    /\ i' = i + 1
    /\ max_read' = IF i > max_read THEN i ELSE max_read
    /\ UNCHANGED << outside_split, raw, pc, sql_content, statements, scanner,
                    final_statements, filtered_statements, origins >>

\* lines 331-354
ScanTerminator ==
    /\ InLoop
    /\ ~IsBackslashStep
    /\ ~IsQuoteStep
    /\ IsTerminator
    /\ LET statement == Strip(current_statement)
       IN  IF statement # << >>
           THEN /\ statements' = Append(statements, statement)
                /\ origins' = Append(origins, i - Len(current_statement)
                                              + LeadingSpaces(current_statement))
           ELSE UNCHANGED << statements, origins >>
    /\ current_statement' = << >>
    /\ paren_count' = CountersAfter[1]
    /\ bracket_count' = CountersAfter[2]
    /\ brace_count' = CountersAfter[3]
    /\ i' = i + 1
    /\ max_read' = IF i > max_read THEN i ELSE max_read
    /\ UNCHANGED << outside_split, raw, pc, sql_content, in_string, string_char, escape_next,
                    final_statements, filtered_statements >>

\* lines 331-345 and 355-358
ScanChar ==
    /\ InLoop
    /\ ~IsBackslashStep
    /\ ~IsQuoteStep
    /\ ~IsTerminator
    /\ paren_count' = CountersAfter[1]
    /\ bracket_count' = CountersAfter[2]
    /\ brace_count' = CountersAfter[3]
    /\ current_statement' = Append(current_statement, char)
    /\ i' = i + 1
    /\ max_read' = IF i > max_read THEN i ELSE max_read
    /\ UNCHANGED << outside_split, raw, pc, sql_content, statements, in_string, string_char,
                    escape_next, final_statements, filtered_statements,
                    origins >>

\* lines 360-363: the statement left when the text ends
ScanEnd ==
    /\ pc = "scan"
    /\ ~(i < Len(sql_content))
    /\ LET last_statement == Strip(current_statement)
       IN  IF last_statement # << >> /\ last_statement # << ";" >>
           THEN /\ statements' = Append(statements, last_statement)
                /\ origins' = Append(origins, i - Len(current_statement)
                                              + LeadingSpaces(current_statement))
           ELSE UNCHANGED << statements, origins >>
    /\ pc' = "post"
    /\ UNCHANGED << outside_split, raw, sql_content, current_statement, scanner, i,
                    final_statements, filtered_statements, max_read >>

(***************************************************************************)
(* Lines 365-420: the multi-INSERT pass over statements.                   *)
(***************************************************************************)
RECURSIVE Flatten(_)
Flatten(ss) ==
    IF ss = << >> THEN << >> ELSE Head(ss) \o Flatten(Tail(ss))

MultiInsertPass ==
    /\ pc = "post"
    /\ final_statements' =
           Flatten([k \in 1..Len(statements) |-> MultiInsertSplit(statements[k])])
    /\ origins' =
           Flatten([k \in 1..Len(statements) |->
                       LET off == MultiInsertOffsets(statements[k])
                       IN  [j \in 1..Len(off) |-> origins[k] + off[j]]])
    /\ pc' = "filter"
    /\ UNCHANGED << outside_split, raw, sql_content, statements, current_statement, scanner,
                    i, filtered_statements, max_read >>

(***************************************************************************)
(* Lines 422-462: the filter pass over final_statements.                   *)
(***************************************************************************)
\* the indices of final_statements that are kept, in order
Kept ==
    SortedSeq({k \in 1..Len(final_statements) : ~Dropped(final_statements[k])})

FilterPass ==
    /\ pc = "filter"
    /\ filtered_statements' =
           [k \in 1..Len(Kept) |-> RepairQuotes(final_statements[Kept[k]])]
    /\ origins' = [k \in 1..Len(Kept) |-> origins[Kept[k]]]
    /\ pc' = "done"
    /\ UNCHANGED << outside_split, raw, sql_content, statements, current_statement, scanner,
                    i, final_statements, max_read >>

Next ==
    \/ Preprocess
    \/ ScanBackslash
    \/ ScanOpenQuote
    \/ ScanSameQuote
    \/ ScanOtherQuote
    \/ ScanTerminator
    \/ ScanChar
    \/ ScanEnd
    \/ MultiInsertPass
    \/ FilterPass

Spec ==
    Init /\ [][Next]_vars

\* the value split_sql_statements returns
Returned ==
    pc = "done"

(***************************************************************************)
(* sql_server_to_mysql.py: the CREATE TABLE rewrite, process_create_table  *)
(* (lines 285-355), the callback that convert_sql_server_to_mysql applies  *)
(* to every match of create_table_pattern.                                 *)
(***************************************************************************)
Digits ==
    << "0", "1", "2", "3", "4", "5", "6", "7", "8", "9" >>

\* the class \w of re, on ASCII text
IsWord(c) ==
    \/ c = "_"
    \/ \E k \in 1..Len(LowerLetters) : c = LowerLetters[k] \/ c = UpperLetters[k]
    \/ \E k \in 1..Len(Digits) : c = Digits[k]

\* pat occurs in s at Python index p, letter case ignored (re.IGNORECASE)
MatchAtI(s, p, pat) ==
    /\ p >= 0
    /\ p + Len(pat) <= Len(s)
    /\ \A k \in 1..Len(pat) : UpperChar(s[p + k]) = UpperChar(pat[k])

\* the least element of a non-empty set of integers
Least(S) ==
    CHOOSE x \in S : \A y \in S : x <= y

\* number of consecutive \w characters of s from Python index p on
WordRun(s, p) ==
    IF \A k \in (p + 1)..Len(s) : IsWord(s[k])
    THEN (IF p < Len(s) THEN Len(s) - p ELSE 0)
    ELSE Least({k \in (p + 1)..Len(s) : ~IsWord(s[k])}) - 1 - p

\* str.rstrip(chars)
RStripChars(s, chars) ==
    IF \A k \in 1..Len(s) : s[k] \in chars
    THEN << >>
    ELSE SubSeq(s, 1, CHOOSE k \in 1..Len(s) :
                          /\ s[k] \notin chars
                          /\ \A j \in (k + 1)..Len(s) : s[j] \in chars)

\* str.strip(chars)
StripChars(s, chars) ==
    LET r == RStripChars(s, chars)
    IN  IF r = << >>
        THEN << >>
        ELSE SubSeq(r, Least({k \in 1..Len(r) : r[k] \notin chars}), Len(r))

RECURSIVE SplitOn(_, _)
\* str.split(sep), sep non-empty
SplitOn(s, sep) ==
    LET p == Find(s, sep, 0)
    IN  IF p < 0
        THEN << s >>
        ELSE << Slice(s, 0, p) >> \o SplitOn(Slice(s, p + Len(sep), Len(s)), sep)

RECURSIVE Join(_, _)
\* sep.join(parts)
Join(sep, parts) ==
    IF parts = << >>
    THEN << >>
    ELSE IF Len(parts) = 1
         THEN parts[1]
         ELSE parts[1] \o sep \o Join(sep, Tail(parts))

kwIDENTITY_OPEN == << "I", "D", "E", "N", "T", "I", "T", "Y", "(" >>
kwINT == << "i", "n", "t" >>
kwNOT == << "N", "O", "T" >>
kwNULL == << "N", "U", "L", "L" >>
kwAUTO_INCREMENT == << "A", "U", "T", "O", "_", "I", "N", "C", "R", "E", "M", "E", "N", "T" >>
kwPRIMARY_KEY == << "P", "R", "I", "M", "A", "R", "Y", " ", "K", "E", "Y" >>
kwCOLLATE == << "C", "O", "L", "L", "A", "T", "E" >>
kwCHINESE_PRC_CI_AS == << "C", "h", "i", "n", "e", "s", "e", "_", "P", "R", "C", "_", "C", "I", "_", "A", "S" >>
kwMONEY == << "m", "o", "n", "e", "y" >>
kwDECIMAL_19_4 == << "d", "e", "c", "i", "m", "a", "l", "(", "1", "9", ",", "4", ")" >>
kwCOMMENT == << "-", "-" >>

\* IDENTITY_PATTERN, r'\s+IDENTITY\([^)]+\)' with IGNORECASE: the end of the
\* match that starts at p, or -1
IdentityEnd(s, p) ==
    LET q == p + SpacesAt(s, p)
        open == q + Len(kwIDENTITY_OPEN)
        close == Find(s, << ")" >>, open)
    IN  IF q > p /\ MatchAtI(s, q, kwIDENTITY_OPEN) /\ close > open
        THEN close + 1
        ELSE -1

RECURSIVE StripIdentityFrom(_, _)
StripIdentityFrom(s, from) ==
    LET P == {p \in from..Len(s) : IdentityEnd(s, p) >= 0}
    IN  IF P = {}
        THEN Slice(s, from, Len(s))
        ELSE Slice(s, from, Least(P))
                 \o StripIdentityFrom(s, IdentityEnd(s, Least(P)))

\* IDENTITY_PATTERN.sub('', s), line 314
StripIdentity(s) ==
    StripIdentityFrom(s, 0)

\* r'(\[?\w+\]?)' at p, followed by white space: the end of the group, or -1
ColumnNameEnd(s, p) ==
    LET a == IF CharAt(s, p) = "[" THEN p + 1 ELSE p
        b == a + WordRun(s, a)
        e == IF CharAt(s, b) = "]" THEN b + 1 ELSE b
    IN  IF b > a /\ IsSpace(CharAt(s, e)) THEN e ELSE -1

\* r'\s+int\s+' at e: the end of the match, or -1
IntTypeEnd(s, e) ==
    LET q == e + SpacesAt(s, e)
        r == q + Len(kwINT)
    IN  IF e >= 0 /\ q > e /\ MatchAtI(s, q, kwINT) /\ SpacesAt(s, r) >= 1
        THEN r + SpacesAt(s, r)
        ELSE -1

\* r'NOT\s+NULL' at r: the end of the match, or -1
NotNullEnd(s, r) ==
    LET n == r + Len(kwNOT)
        m == n + SpacesAt(s, n)
    IN  IF r >= 0 /\ MatchAtI(s, r, kwNOT) /\ m > n /\ MatchAtI(s, m, kwNULL)
        THEN m + Len(kwNULL)
        ELSE -1

\* r'(NOT\s+NULL|NULL)' at r: the end of the match, or -1
NullabilityEnd(s, r) ==
    IF NotNullEnd(s, r) >= 0
    THEN NotNullEnd(s, r)
    ELSE IF r >= 0 /\ MatchAtI(s, r, kwNULL) THEN r + Len(kwNULL) ELSE -1

\* AUTO_INCREMENT_PATTERN, r'(\[?\w+\]?)\s+int\s+(NOT\s+NULL|NULL)' with
\* IGNORECASE, at p: the ends of group 1, of r'\s+int\s+' and of the match
AutoIncrementMatch(s, p) ==
    LET e == ColumnNameEnd(s, p)
        r == IntTypeEnd(s, e)
    IN  [name_end |-> e, type_end |-> r, end |-> NullabilityEnd(s, r)]

\* the replacement template of line 316, r'\1 int AUTO_INCREMENT \2'
AutoIncrementTemplate(s, p) ==
    LET m == AutoIncrementMatch(s, p)
    IN  Slice(s, p, m.name_end) \o << " " >> \o kwINT \o << " " >>
            \o kwAUTO_INCREMENT \o << " " >> \o Slice(s, m.type_end, m.end)

RECURSIVE AddAutoIncrementFrom(_, _)
AddAutoIncrementFrom(s, from) ==
    LET P == {p \in from..Len(s) : AutoIncrementMatch(s, p).end >= 0}
    IN  IF P = {}
        THEN Slice(s, from, Len(s))
        ELSE Slice(s, from, Least(P))
                 \o AutoIncrementTemplate(s, Least(P))
                 \o AddAutoIncrementFrom(s, AutoIncrementMatch(s, Least(P)).end)

\* AUTO_INCREMENT_PATTERN.sub(r'\1 int AUTO_INCREMENT \2', s), line 316
AddAutoIncrement(s) ==
    AddAutoIncrementFrom(s, 0)

\* PRIMARY_KEY_COL_PATTERN,
\* r'(\[?\w+\]?)\s+int\s+AUTO_INCREMENT\s+NOT\s+NULL' with IGNORECASE, at p:
\* the end of group 1 when the pattern matches at p, or -1
PrimaryKeyColEnd(s, p) ==
    LET e == ColumnNameEnd(s, p)
        r == IntTypeEnd(s, e)
        a == r + Len(kwAUTO_INCREMENT)
    IN  IF /\ r >= 0
           /\ MatchAtI(s, r, kwAUTO_INCREMENT)
           /\ SpacesAt(s, a) >= 1
           /\ NotNullEnd(s, a + SpacesAt(s, a)) >= 0
        THEN e
        ELSE -1

\* PRIMARY_KEY_COL_PATTERN.search(s), lines 318-320: group(1) of the
\* leftmost match, or None
pk_match(s) ==
    LET P == {p \in 0..Len(s) : PrimaryKeyColEnd(s, p) >= 0}
    IN  IF P = {}
        THEN None
        ELSE Slice(s, Least(P), PrimaryKeyColEnd(s, Least(P)))

\* BRACKET_PATTERN, r'\[([^\]]+)\]', at p: the index of the closing bracket,
\* or -1
BracketClose(s, p) ==
    LET close == Find(s, << "]" >>, p + 1)
    IN  IF CharAt(s, p) = "[" /\ close > p + 1 THEN close ELSE -1

RECURSIVE StripBracketsFrom(_, _)
StripBracketsFrom(s, from) ==
    LET P == {p \in from..Len(s) : BracketClose(s, p) >= 0}
    IN  IF P = {}
        THEN Slice(s, from, Len(s))
        ELSE Slice(s, from, Least(P))
                 \o Slice(s, Least(P) + 1, BracketClose(s, Least(P)))
                 \o StripBracketsFrom(s, BracketClose(s, Least(P)) + 1)

\* BRACKET_PATTERN.sub(r'\1', s), line 323
StripBrackets(s) ==
    StripBracketsFrom(s, 0)

\* COLLATE_PATTERN, r'\s+COLLATE\s+Chinese_PRC_CI_AS' with IGNORECASE, at p:
\* the end of the match, or -1
CollateEnd(s, p) ==
    LET q == p + SpacesAt(s, p)
        c == q + Len(kwCOLLATE)
        n == c + SpacesAt(s, c)
    IN  IF /\ q > p
           /\ MatchAtI(s, q, kwCOLLATE)
           /\ n > c
           /\ MatchAtI(s, n, kwCHINESE_PRC_CI_AS)
        THEN n + Len(kwCHINESE_PRC_CI_AS)
        ELSE -1

RECURSIVE StripCollateFrom(_, _)
StripCollateFrom(s, from) ==
    LET P == {p \in from..Len(s) : CollateEnd(s, p) >= 0}
    IN  IF P = {}
        THEN Slice(s, from, Len(s))
        ELSE Slice(s, from, Least(P))
                 \o StripCollateFrom(s, CollateEnd(s, Least(P)))

\* COLLATE_PATTERN.sub('', s), line 324
StripCollate(s) ==
    StripCollateFrom(s, 0)

\* MONEY_TO_DECIMAL_PATTERN, r'\bmoney\b' with IGNORECASE, at p
MoneyAt(s, p) ==
    /\ MatchAtI(s, p, kwMONEY)
    /\ ~IsWord(CharAt(s, p - 1))
    /\ ~IsWord(CharAt(s, p + Len(kwMONEY)))

RECURSIVE MoneyToDecimalFrom(_, _)
MoneyToDecimalFrom(s, from) ==
    LET P == {p \in from..Len(s) : MoneyAt(s, p)}
    IN  IF P = {}
        THEN Slice(s, from, Len(s))
        ELSE Slice(s, from, Least(P)) \o kwDECIMAL_19_4
                 \o MoneyToDecimalFrom(s, Least(P) + Len(kwMONEY))

\* MONEY_TO_DECIMAL_PATTERN.sub('decimal(19,4)', s), line 325
MoneyToDecimal(s) ==
    MoneyToDecimalFrom(s, 0)

\* lines 304-306: the part of a stripped line before its first '--'
CommentRemoved(line) ==
    IF Contains(line, kwCOMMENT)
    THEN RStrip(SplitOn(line, kwCOMMENT)[1])
    ELSE line

\* lines 312-316: the identity rewrite of one column definition
IdentityRewritten(sql_part) ==
    IF Contains(sql_part, kwIDENTITY_OPEN)
    THEN AddAutoIncrement(StripIdentity(sql_part))
    ELSE sql_part

\* lines 322-328: brackets, collation, money and the trailing commas
Cleaned(sql_part) ==
    RStripChars(MoneyToDecimal(StripCollate(StripBrackets(sql_part))), {","})

\* lines 333-337: a comma after every line but the last
WithCommas(ls) ==
    [k \in 1..Len(ls) |->
        IF k < Len(ls) /\ Strip(ls[k]) # << >>
        THEN Append(ls[k], ",")
        ELSE ls[k]]

\* lines 342-350: the body with the synthesized PRIMARY KEY clause
WithPrimaryKey(body, col) ==
    IF col # None /\ ~Contains(body, kwPRIMARY_KEY)
    THEN RStrip(RStripChars(body, {","}))
             \o << ",", "\n", " ", " ", "P", "R", "I", "M", "A", "R", "Y", " ", "K", "E", "Y", " ", "(" >>
             \o StripChars(col, {"[", "]"}) \o << ")" >>
    ELSE body

(***************************************************************************)
(* Table bodies as they reach process_create_table: group 3 of a match of  *)
(* create_table_pattern, after the line filter of lines 229-276 has        *)
(* removed comments, brackets and collation clauses.                       *)
(***************************************************************************)
ColumnLines ==
    { << "i", "d", " ", "I", "N", "T", " ", "I", "D", "E", "N", "T", "I", "T", "Y", "(", "1", ",", "1", ")", " ", "N", "O", "T", " ", "N", "U", "L", "L" >>,
      << "k", " ", "i", "n", "t", " ", "I", "D", "E", "N", "T", "I", "T", "Y", "(", "1", ",", "1", ")", " ", "N", "O", "T", " ", "N", "U", "L", "L" >>,
      << "b", " ", "b", "i", "g", "i", "n", "t", " ", "I", "D", "E", "N", "T", "I", "T", "Y", "(", "1", ",", "1", ")", " ", "N", "O", "T", " ", "N", "U", "L", "L" >>,
      << "n", " ", "i", "n", "t", " ", "I", "D", "E", "N", "T", "I", "T", "Y", "(", "1", ",", "1", ")", " ", "N", "U", "L", "L" >>,
      << "c", " ", "i", "n", "t", " ", "i", "d", "e", "n", "t", "i", "t", "y", "(", "1", ",", "1", ")", " ", "N", "O", "T", " ", "N", "U", "L", "L" >>,
      << "v", " ", "v", "a", "r", "c", "h", "a", "r", "(", "9", ")", " ", "N", "U", "L", "L" >>,
      << "P", "R", "I", "M", "A", "R", "Y", " ", "K", "E", "Y", " ", "(", "v", ")" >> }

RECURSIVE ColumnLists(_)
\* the lists of 1 to n column lines
ColumnLists(n) ==
    IF n = 0
    THEN {}
    ELSE {<< l >> : l \in ColumnLines}
             \cup ColumnLists(n - 1)
             \cup {Append(ls, l) : ls \in ColumnLists(n - 1), l \in ColumnLines}

\* the body text of a column list, one indented definition per line
BodyOf(ls) ==
    << "\n" >>
        \o Join(<< ",", "\n" >>, [k \in 1..Len(ls) |-> << " ", " " >> \o ls[k]])
        \o << "\n" >>

TableBodies ==
    {BodyOf(ls) : ls \in ColumnLists(MaxCols)}

TableNames ==
    { << "t" >> }

\* a call of split_sql_statements has not been entered
SplitIdle ==
    /\ raw = << >>
    /\ pc = "start"
    /\ sql_content = << >>
    /\ statements = << >>
    /\ current_statement = << >>
    /\ in_string = FALSE
    /\ string_char = "None"
    /\ escape_next = FALSE
    /\ paren_count = 0
    /\ bracket_count = 0
    /\ brace_count = 0
    /\ i = 0
    /\ final_statements = << >>
    /\ filtered_statements = << >>
    /\ origins = << >>
    /\ max_read = -1

(***************************************************************************)
(* process_create_table as a state machine: entry, one step per line of    *)
(* the body, and the rebuild of the statement.                             *)
(***************************************************************************)
ConvertInit ==
    /\ cpc = "match"
    /\ table_name \in TableNames
    /\ table_body \in TableBodies
    /\ lines = << >>
    /\ line_no = 0
    /\ processed_lines = << >>
    /\ source_lines = << >>
    /\ primary_key_col = None
    /\ new_table_body = << >>
    /\ replacement = << >>
    /\ SplitIdle
    /\ ExecIdle
    /\ TranslateIdle
    /\ MigrateIdle
    /\ PipelineIdle

\* lines 287-295
EnterCreateTable ==
    /\ cpc = "match"
    /\ lines' = SplitOn(table_body, << "\n" >>)
    /\ line_no' = 0
    /\ processed_lines' = << >>
    /\ primary_key_col' = None
    /\ cpc' = "lines"
    /\ UNCHANGED << outside_convert, table_name, table_body, source_lines,
                    new_table_body, replacement >>

\* line 299: the line of this iteration, stripped
line ==
    Strip(lines[line_no + 1])

\* lines 304-306
sql_part ==
    CommentRemoved(line)

\* lines 300-301 and 307-309: the iteration appends nothing
LineSkipped ==
    \/ line = << >>
    \/ Contains(line, kwCOMMENT) /\ Strip(sql_part) = << >>

\* lines 297-329: one iteration of the loop over the body's lines
ProcessLine ==
    /\ cpc = "lines"
    /\ line_no < Len(lines)
    /\ IF LineSkipped
       THEN UNCHANGED << processed_lines, source_lines, primary_key_col >>
       ELSE /\ processed_lines' =
                   Append(processed_lines, Cleaned(IdentityRewritten(sql_part)))
            /\ source_lines' = Append(source_lines, line)
            /\ primary_key_col' =
                   IF /\ Contains(sql_part, kwIDENTITY_OPEN)
                      /\ pk_match(IdentityRewritten(sql_part)) # None
                   THEN pk_match(IdentityRewritten(sql_part))
                   ELSE primary_key_col
    /\ line_no' = line_no + 1
    /\ UNCHANGED << outside_convert, cpc, table_name, table_body, lines,
                    new_table_body, replacement >>

\* lines 331-355: commas, the joined body, the PRIMARY KEY clause and the
\* statement returned as the replacement of the match
RebuildTable ==
    /\ cpc = "lines"
    /\ ~(line_no < Len(lines))
    /\ processed_lines' = WithCommas(processed_lines)
    /\ new_table_body' =
           WithPrimaryKey(Join(<< "\n", " ", " " >>, WithCommas(processed_lines)),
                          primary_key_col)
    /\ replacement' =
           << "C", "R", "E", "A", "T", "E", " ", "T", "A", "B", "L", "E", " " >> \o table_name \o << " ", "(", "\n", " ", " " >>
               \o new_table_body' \o << "\n", ")" >>
    /\ cpc' = "done"
    /\ UNCHANGED << outside_convert, table_name, table_body, lines, line_no,
                    source_lines, primary_key_col >>

ConvertNext ==
    \/ EnterCreateTable
    \/ ProcessLine
    \/ RebuildTable

ConvertSpec ==
    ConvertInit /\ [][ConvertNext]_vars

\* process_create_table has returned
Rewritten ==
    cpc = "done"

(***************************************************************************)
(* sql_server_to_mysql.py: the regular expressions of lines 40-95 that     *)
(* convert_sql_server_to_mysql applies to the whole document, and the      *)
(* backtracking matcher of re that runs them.  A pattern is a sequence of  *)
(* items; ReMatch gives the match that re finds first.                     *)
(***************************************************************************)
\* an item that matches the text, letter case as written
Lit(t) ==
    [kind |-> "lit", text |-> t, icase |-> FALSE, neg |-> FALSE, chars |-> {},
     least |-> 0, most |-> 0, greedy |-> TRUE, items |-> << >>]

\* an item that matches the text under re.IGNORECASE
LitI(t) ==
    [kind |-> "lit", text |-> t, icase |-> TRUE, neg |-> FALSE, chars |-> {},
     least |-> 0, most |-> 0, greedy |-> TRUE, items |-> << >>]

\* lo to hi characters of a class (hi = -1: no upper limit); the class is
\* the set cs, or its complement when ng
Rep(ng, cs, lo, hi, gr) ==
    [kind |-> "rep", text |-> << >>, icase |-> FALSE, neg |-> ng, chars |-> cs,
     least |-> lo, most |-> hi, greedy |-> gr, items |-> << >>]

\* \b
WordBoundary ==
    [kind |-> "wordb", text |-> << >>, icase |-> FALSE, neg |-> FALSE,
     chars |-> {}, least |-> 0, most |-> 0, greedy |-> TRUE, items |-> << >>]

\* (...)? around a sub-pattern that has one way to match
Opt(sub) ==
    [kind |-> "opt", text |-> << >>, icase |-> FALSE, neg |-> FALSE,
     chars |-> {}, least |-> 0, most |-> 0, greedy |-> TRUE, items |-> sub]

SpaceChars ==
    {" ", "\t", "\n", "\r"}

\* the characters of the class \w, on ASCII text
WordChars ==
    {LowerLetters[k] : k \in 1..Len(LowerLetters)}
        \cup {UpperLetters[k] : k \in 1..Len(UpperLetters)}
        \cup {Digits[k] : k \in 1..Len(Digits)} \cup {"_"}

\* \s+ and \s*
Spaces1 ==
    Rep(FALSE, SpaceChars, 1, -1, TRUE)

Spaces0 ==
    Rep(FALSE, SpaceChars, 0, -1, TRUE)

\* .*? without re.DOTALL
LazyDots ==
    Rep(TRUE, {"\n"}, 0, -1, FALSE)

\* x? for one character x
Maybe(x) ==
    Rep(FALSE, {x}, 0, 1, TRUE)

\* the character c is in the class of the item
InClass(it, c) ==
    c # "" /\ ((c \in it.chars) # it.neg)

\* the greatest number of characters from index p that the item can take
ClassRun(it, s, p) ==
    LET stop == {k \in (p + 1)..Len(s) : ~InClass(it, s[k])}
        run == IF stop = {}
               THEN (IF p < Len(s) THEN Len(s) - p ELSE 0)
               ELSE Least(stop) - 1 - p
    IN  IF it.most >= 0 /\ run > it.most THEN it.most ELSE run

\* the greatest element of a non-empty set of integers
Greatest(S) ==
    CHOOSE x \in S : \A y \in S : x >= y

\* the value of a match that failed
NoMatch ==
    << -1 >>

Failed(t) ==
    t # << >> /\ t[1] < 0

\* F applied to the value of x: x is computed once, before F reads it
With(x, F(_)) ==
    CHOOSE r \in {F(v) : v \in {x}} : TRUE

\* the first element of a pair whose second element is the trace
Pick(pairs, greedy) ==
    CHOOSE x \in pairs :
        \A y \in pairs : IF greedy THEN x[1] >= y[1] ELSE x[1] <= y[1]

RECURSIVE ReMatch(_, _, _, _)
RECURSIVE ReStep(_, _, _, _)
\* item k ends at index e: e and the ends of the items after it, or NoMatch
ReStep(re, k, s, e) ==
    With(ReMatch(re, k + 1, s, e),
         LAMBDA rest : IF Failed(rest) THEN NoMatch ELSE << e >> \o rest)

\* the items k, k+1, ... of the pattern matched at index p of s: the end
\* index of each item, in the order re tries the alternatives (greedy items
\* longest first, lazy items shortest first), or NoMatch
ReMatch(re, k, s, p) ==
    IF k > Len(re)
    THEN << >>
    ELSE LET it == re[k]
         IN  CASE it.kind = "lit" ->
                      IF IF it.icase THEN MatchAtI(s, p, it.text)
                                     ELSE MatchAt(s, p, it.text)
                      THEN ReStep(re, k, s, p + Len(it.text))
                      ELSE NoMatch
               [] it.kind = "rep" ->
                      With({ << n, ReMatch(re, k + 1, s, p + n) >> :
                                 n \in it.least..ClassRun(it, s, p) },
                           LAMBDA all :
                               With({x \in all : ~Failed(x[2])},
                                    LAMBDA ok :
                                        IF ok = {}
                                        THEN NoMatch
                                        ELSE With(Pick(ok, it.greedy),
                                                  LAMBDA x : << p + x[1] >> \o x[2])))
               [] it.kind = "wordb" ->
                      IF IsWord(CharAt(s, p - 1)) # IsWord(CharAt(s, p))
                      THEN ReStep(re, k, s, p)
                      ELSE NoMatch
               [] it.kind = "opt" ->
                      With(ReMatch(it.items, 1, s, p),
                           LAMBDA sub :
                               With(IF Failed(sub) \/ sub = << >>
                                    THEN NoMatch
                                    ELSE ReStep(re, k, s, sub[Len(sub)]),
                                    LAMBDA taken :
                                        IF Failed(taken)
                                        THEN ReStep(re, k, s, p)
                                        ELSE taken))

\* the whole pattern matches at index p
MatchesAt(re, s, p) ==
    ~Failed(ReMatch(re, 1, s, p))

RECURSIVE ReFindAll(_, _, _)
\* re.finditer from index `from` on: the matches, leftmost first and not
\* overlapping, each with its start and the end of each item
ReFindAll(re, s, from) ==
    With({p \in from..Len(s) : MatchesAt(re, s, p)},
         LAMBDA P :
             IF P = {}
             THEN << >>
             ELSE With(Least(P),
                       LAMBDA p :
                           With(ReMatch(re, 1, s, p),
                                LAMBDA t :
                                    With(t[Len(t)],
                                         LAMBDA e :
                                             << [start |-> p, ends |-> t,
                                                 end |-> e] >>
                                                 \o ReFindAll(re, s,
                                                        IF e > p THEN e
                                                                 ELSE e + 1)))))

\* pattern.search(s) finds a match
ReSearch(re, s) ==
    \E p \in 0..Len(s) : MatchesAt(re, s, p)

RECURSIVE Substitute(_, _, _, _, _)
\* s with the match ms[j] replaced by reps[j], for j, j+1, ...
Substitute(s, ms, reps, j, from) ==
    IF j > Len(ms)
    THEN Slice(s, from, Len(s))
    ELSE Slice(s, from, ms[j].start) \o reps[j]
             \o Substitute(s, ms, reps, j + 1, ms[j].end)

\* pattern.sub(rep, s) for a replacement without group references
ReSub(re, rep, s) ==
    With(s, LAMBDA v :
        With(ReFindAll(re, v, 0),
             LAMBDA ms : Substitute(v, ms, [j \in 1..Len(ms) |-> rep], 1, 0)))

RECURSIVE ReSubEach(_, _, _, _)
\* for pattern in res: s = pattern.sub(rep, s)
ReSubEach(res, k, rep, s) ==
    IF k > Len(res)
    THEN s
    ELSE With(ReSub(res[k], rep, s), LAMBDA v : ReSubEach(res, k + 1, rep, v))

kwDROP_IF_1 == << "I", "F", " ", "E", "X", "I", "S", "T", "S", " ", "(", "S", "E", "L", "E", "C", "T", " ", "*", " ", "F", "R", "O", "M", " ", "s", "y", "s", ".", "a", "l", "l", "_", "o", "b", "j", "e", "c", "t", "s", " ", "W", "H", "E", "R", "E", " ", "o", "b", "j", "e", "c", "t", "_", "i", "d", " ", "=", " ", "O", "B", "J", "E", "C", "T", "_", "I", "D", "(", "N", "'", "[", "d", "b", "o", "]", ".", "[" >>
kwDROP_TYPE_1 == << "]", "'", ")", " ", "A", "N", "D", " ", "t", "y", "p", "e", " ", "I", "N", " ", "(", "'", "U", "'", ")", ")" >>
kwDROP_TABLE_1 == << "D", "R", "O", "P", " ", "T", "A", "B", "L", "E", " ", "[", "d", "b", "o", "]", ".", "[" >>
kwDROP_IF_2 == << "I", "F", " ", "E", "X", "I", "S", "T", "S", " ", "(", "S", "E", "L", "E", "C", "T", " ", "*", " ", "F", "R", "O", "M", " ", "s", "y", "s", ".", "a", "l", "l", "_", "o", "b", "j", "e", "c", "t", "s", " ", "W", "H", "E", "R", "E", " ", "o", "b", "j", "e", "c", "t", "_", "i", "d", " ", "=", " ", "O", "B", "J", "E", "C", "T", "_", "I", "D", "(", "N", "'" >>
kwDROP_TYPE_2 == << "'", ")", " ", "A", "N", "D", " ", "t", "y", "p", "e", " ", "I", "N", " ", "(", "'", "U", "'", ")", ")" >>
kwDROP_TABLE_2 == << "D", "R", "O", "P", " ", "T", "A", "B", "L", "E", " " >>
kwDROP_TABLE_IF_EXISTS == << "D", "R", "O", "P", " ", "T", "A", "B", "L", "E", " ", "I", "F", " ", "E", "X", "I", "S", "T", "S", " " >>

\* DROP_TABLE_PATTERN1 / DROP_TABLE_PATTERN2 at index p, as the texts
\* before the name (\w+), between the name and \s+, between \s+ and the
\* back-reference \1, and after it: the name's end and the match's end, or
\* end = -1
DropTableMatch(s, p, head, mid, drop, tail) ==
    LET a == p + Len(head)
        b == a + WordRun(s, a)
        c == b + Len(mid)
        d == c + SpacesAt(s, c)
        e == d + Len(drop)
        f == e + (b - a)
    IN  IF /\ MatchAt(s, p, head)
           /\ b > a
           /\ MatchAt(s, b, mid)
           /\ d > c
           /\ MatchAt(s, d, drop)
           /\ MatchAt(s, e, Slice(s, a, b))
           /\ MatchAt(s, f, tail)
        THEN [name |-> Slice(s, a, b), end |-> f + Len(tail)]
        ELSE [name |-> << >>, end |-> -1]

RECURSIVE DropTableSubFrom(_, _, _, _, _, _)
DropTableSubFrom(s, from, head, mid, drop, tail) ==
    With({p \in from..Len(s) :
              DropTableMatch(s, p, head, mid, drop, tail).end >= 0},
         LAMBDA P :
             IF P = {}
             THEN Slice(s, from, Len(s))
             ELSE With(DropTableMatch(s, Least(P), head, mid, drop, tail),
                       LAMBDA m :
                           Slice(s, from, Least(P)) \o kwDROP_TABLE_IF_EXISTS
                               \o m.name
                               \o DropTableSubFrom(s, m.end, head, mid, drop,
                                                   tail)))

\* lines 154-155
DropTableConverted(s) ==
    With(DropTableSubFrom(s, 0, kwDROP_IF_1, kwDROP_TYPE_1, kwDROP_TABLE_1,
                          << "]" >>),
         LAMBDA v : DropTableSubFrom(v, 0, kwDROP_IF_2, kwDROP_TYPE_2,
                                     kwDROP_TABLE_2, << >>))

\* the three heads r'SET\s+IDENTITY_INSERT\s+' + name of lines 50-52, 55-57
IdentityInsertHeads ==
    << << LitI(<< "S", "E", "T" >>), Spaces1, LitI(<< "I", "D", "E", "N", "T", "I", "T", "Y", "_", "I", "N", "S", "E", "R", "T" >>), Spaces1,
          LitI(<< "[" >>), LazyDots, LitI(<< "]" >>), LitI(<< "." >>),
          LitI(<< "[" >>), LazyDots, LitI(<< "]" >>), Spaces1 >>,
       << LitI(<< "S", "E", "T" >>), Spaces1, LitI(<< "I", "D", "E", "N", "T", "I", "T", "Y", "_", "I", "N", "S", "E", "R", "T" >>), Spaces1,
          LitI(<< "[" >>), LazyDots, LitI(<< "]" >>), Spaces1 >>,
       << LitI(<< "S", "E", "T" >>), Spaces1, LitI(<< "I", "D", "E", "N", "T", "I", "T", "Y", "_", "I", "N", "S", "E", "R", "T" >>), Spaces1,
          LazyDots, Spaces1 >> >>

IDENTITY_INSERT_ON_PATTERNS ==
    [k \in 1..Len(IdentityInsertHeads) |->
        Append(IdentityInsertHeads[k], LitI(<< "O", "N" >>))]

IDENTITY_INSERT_OFF_PATTERNS ==
    [k \in 1..Len(IdentityInsertHeads) |->
        Append(IdentityInsertHeads[k], LitI(<< "O", "F", "F" >>))]

\* lines 163-167
IdentityInsertConverted(s) ==
    With(ReSubEach(IDENTITY_INSERT_ON_PATTERNS, 1,
                   << "S", "E", "T", " ", "F", "O", "R", "E", "I", "G", "N", "_", "K", "E", "Y", "_", "C", "H", "E", "C", "K", "S", "=", "0", ";" >>, s),
         LAMBDA v : ReSubEach(IDENTITY_INSERT_OFF_PATTERNS, 1,
                              << "S", "E", "T", " ", "F", "O", "R", "E", "I", "G", "N", "_", "K", "E", "Y", "_", "C", "H", "E", "C", "K", "S", "=", "1", ";" >>, v))

\* r'SET\s+\(LOCK_ESCALATION\s*=\s*TABLE\)'
LockEscalationTail ==
    << LitI(<< "S", "E", "T" >>), Spaces1, LitI(<< "(", "L", "O", "C", "K", "_", "E", "S", "C", "A", "L", "A", "T", "I", "O", "N" >>), Spaces0, LitI(<< "=" >>),
       Spaces0, LitI(<< "T", "A", "B", "L", "E", ")" >>) >>

ALTER_TABLE_LOCK_ESCALATION_PATTERNS ==
    << << LitI(<< "A", "L", "T", "E", "R" >>), Spaces1, LitI(<< "T", "A", "B", "L", "E" >>), Spaces1,
          LitI(<< "[" >>), LazyDots, LitI(<< "]" >>), LitI(<< "." >>),
          LitI(<< "[" >>), LazyDots, LitI(<< "]" >>), Spaces1 >> \o LockEscalationTail,
       << LitI(<< "A", "L", "T", "E", "R" >>), Spaces1, LitI(<< "T", "A", "B", "L", "E" >>), Spaces1,
          LitI(<< "[" >>), LazyDots, LitI(<< "]" >>), Spaces1 >> \o LockEscalationTail,
       << LitI(<< "A", "L", "T", "E", "R" >>), Spaces1, LitI(<< "T", "A", "B", "L", "E" >>), Spaces1,
          LazyDots, Spaces1 >> \o LockEscalationTail >>

\* lines 175-176
LockEscalationRemoved(s) ==
    ReSubEach(ALTER_TABLE_LOCK_ESCALATION_PATTERNS, 1, << >>, s)

\* DBO_PREFIX_PATTERN, r'\bdbo\.'
DBO_PREFIX_PATTERN ==
    << WordBoundary, Lit(<< "d", "b", "o", "." >>) >>

\* UNICODE_STRING_PATTERN, r"N'([^']*)'"
UNICODE_STRING_PATTERN ==
    << Lit(<< "N", "'" >>), Rep(TRUE, {"'"}, 0, -1, TRUE), Lit(<< "'" >>) >>

\* UNICODE_STRING_PATTERN.sub(lambda m: "'" + m.group(1) + "'", s)
UnwrapUnicodeStrings(s) ==
    With(s, LAMBDA v :
        With(ReFindAll(UNICODE_STRING_PATTERN, v, 0),
             LAMBDA ms :
                 Substitute(v, ms,
                            [j \in 1..Len(ms) |->
                                Slice(v, ms[j].start + 1, ms[j].end)],
                            1, 0)))

\* NUMERIC_TO_DECIMAL_PATTERN, r'\bnumeric\b' with IGNORECASE
NUMERIC_TO_DECIMAL_PATTERN ==
    << WordBoundary, LitI(<< "n", "u", "m", "e", "r", "i", "c" >>), WordBoundary >>

\* GO_STATEMENT_PATTERN, r'\bGO\b'
GO_STATEMENT_PATTERN ==
    << WordBoundary, Lit(<< "G", "O" >>), WordBoundary >>

kwSEPARATOR == << "-", "-", " ", "-", "-", "-", "-", "-", "-", "-", "-", "-", "-", "-", "-", "-", "-", "-", "-", "-", "-", "-", "-", "-", "-", "-", "-", "-", "-", "-", "-" >>
kwRECORDS_OF == << "-", "-", " ", "R", "e", "c", "o", "r", "d", "s", " ", "o", "f" >>
kwALTER_TABLE == << "A", "L", "T", "E", "R", " ", "T", "A", "B", "L", "E" >>
kwADD_CONSTRAINT == << "A", "D", "D", " ", "C", "O", "N", "S", "T", "R", "A", "I", "N", "T" >>
kwPRIMARY_KEY_STRUCTURE == << "P", "r", "i", "m", "a", "r", "y", " ", "K", "e", "y", " ", "s", "t", "r", "u", "c", "t", "u", "r", "e" >>

\* line 246: a comment line of the dump is left out
IsDumpComment(ln) ==
    Contains(ln, kwSEPARATOR) \/ Contains(ln, kwRECORDS_OF)

\* a trigger that knows the declaration only
IsTriggerDeclarationOnly(ln) ==
    /\ Contains(ln, kwALTER_TABLE)
    /\ Contains(ln, kwADD_CONSTRAINT)
    /\ Contains(ln, kwPRIMARY_KEY)

\* line 250: the line starts the primary-key section
IsTrigger(ln) ==
    \/ /\ Contains(ln, kwALTER_TABLE)
       /\ Contains(ln, kwADD_CONSTRAINT)
       /\ Contains(ln, kwPRIMARY_KEY)
    \/ Contains(ln, kwPRIMARY_KEY_STRUCTURE)

\* r'ALTER TABLE.*SET\s+LOCK_ESCALATION' with IGNORECASE, line 266
LockEscalationLine ==
    << LitI(<< "A", "L", "T", "E", "R", " ", "T", "A", "B", "L", "E" >>), Rep(TRUE, {"\n"}, 0, -1, TRUE), LitI(<< "S", "E", "T" >>),
       Spaces1, LitI(<< "L", "O", "C", "K", "_", "E", "S", "C", "A", "L", "A", "T", "I", "O", "N" >>) >>

\* lines 258-263: the k-th substitution made on one line
LineSubstitution(k, s) ==
    CASE k = 1 -> StripBrackets(s)
      [] k = 2 -> StripCollate(s)
      [] k = 3 -> ReSub(DBO_PREFIX_PATTERN, << >>, s)
      [] k = 4 -> UnwrapUnicodeStrings(s)
      [] k = 5 -> ReSub(NUMERIC_TO_DECIMAL_PATTERN, << "d", "e", "c", "i", "m", "a", "l" >>, s)
      [] k = 6 -> MoneyToDecimal(s)

RECURSIVE LineSubstitutions(_, _)
\* the substitutions k, k+1, ... in turn
LineSubstitutions(k, s) ==
    IF k > 6
    THEN s
    ELSE With(LineSubstitution(k, s), LAMBDA v : LineSubstitutions(k + 1, v))

\* lines 257-267: processed_line at the end of the iteration (line 258
\* takes the brackets out of the whole line, quoted text included)
processed_line(ln) ==
    With(LineSubstitutions(1, ln),
         LAMBDA subs : IF ReSearch(LockEscalationLine, subs) THEN << >> ELSE subs)

\* line 270: the line is appended to processed_lines
LineKept(ln, processed) ==
    Strip(processed) # << >> \/ Strip(ln) = << >>

\* create_table_pattern, line 283, with DOTALL and IGNORECASE:
\* r'CREATE TABLE\s+(\[?dbo\]?\.)?\[?(\w+)\]?\s*\((.*?)\)\s*;'
create_table_pattern ==
    << LitI(<< "C", "R", "E", "A", "T", "E", " ", "T", "A", "B", "L", "E" >>), Spaces1,
       Opt(<< Maybe("["), LitI(<< "d", "b", "o" >>), Maybe("]"), Lit(<< "." >>) >>),
       Maybe("["), Rep(FALSE, WordChars, 1, -1, TRUE), Maybe("]"), Spaces0,
       Lit(<< "(" >>), Rep(TRUE, {}, 0, -1, FALSE), Lit(<< ")" >>), Spaces0,
       Lit(<< ";" >>) >>

\* match.group(2) and match.group(3) of a match m of create_table_pattern
TableNameOf(s, m) ==
    Slice(s, m.ends[4], m.ends[5])

TableBodyOf(s, m) ==
    Slice(s, m.ends[8], m.ends[9])

\* lines 297-329 for one line of the body: processed_lines and
\* primary_key_col after the iteration
LineStep(acc, raw_line) ==
    With(Strip(raw_line), LAMBDA ln :
        With(CommentRemoved(ln), LAMBDA part :
            IF ln = << >> \/ (Contains(ln, kwCOMMENT) /\ Strip(part) = << >>)
            THEN acc
            ELSE With(IdentityRewritten(part), LAMBDA rewritten :
                     [processed |-> Append(acc.processed, Cleaned(rewritten)),
                      pk |-> IF /\ Contains(part, kwIDENTITY_OPEN)
                                /\ pk_match(rewritten) # None
                             THEN pk_match(rewritten)
                             ELSE acc.pk])))

RECURSIVE LinesFold(_, _, _)
\* the loop of line 297 from line k on
LinesFold(ls, k, acc) ==
    IF k > Len(ls)
    THEN acc
    ELSE With(LineStep(acc, ls[k]), LAMBDA a : LinesFold(ls, k + 1, a))

\* process_create_table, lines 285-355, as a function of the match groups
process_create_table(name, body) ==
    With(SplitOn(body, << "\n" >>), LAMBDA ls :
        With(LinesFold(ls, 1, [processed |-> << >>, pk |-> None]), LAMBDA r :
            << "C", "R", "E", "A", "T", "E", " ", "T", "A", "B", "L", "E", " " >> \o name \o << " ", "(", "\n", " ", " " >>
                \o WithPrimaryKey(Join(<< "\n", " ", " " >>, WithCommas(r.processed)), r.pk)
                \o << "\n", ")" >>))

\* the texts process_create_table returns for the matches ms in s
TableRewrites(s, ms) ==
    [j \in 1..Len(ms) |->
        process_create_table(TableNameOf(s, ms[j]), TableBodyOf(s, ms[j]))]

\* create_table_pattern.sub(process_create_table, s), line 358
RewriteCreateTables(s) ==
    With(ReFindAll(create_table_pattern, s, 0),
         LAMBDA ms : Substitute(s, ms, TableRewrites(s, ms), 1, 0))

\* re.sub(r'\n\s*\n', '\n\n', s), line 363
CollapseBlankLines(s) ==
    ReSub(<< Lit(<< "\n" >>), Spaces0, Lit(<< "\n" >>) >>, << "\n", "\n" >>, s)

(***************************************************************************)
(* The documents convert_sql_server_to_mysql is applied to: the blocks of  *)
(* a SQL Server dump, one after the other.                                 *)
(***************************************************************************)
\* CREATE TABLE [dbo].[t] (\n  [id] int IDENTITY(1,1) NOT NULL,\n  [m] mo
\* ney NULL\n)\nGO
BlockCreate == << "C", "R", "E", "A", "T", "E", " ", "T", "A", "B", "L", "E", " ", "[", "d", "b", "o", "]", ".", "[", "t", "]", " ", "(", "\n", " ", " ", "[", "i", "d", "]", " ", "i", "n", "t", " ", "I", "D", "E", "N", "T", "I", "T", "Y", "(", "1", ",", "1", ")", " ", "N", "O", "T", " ", "N", "U", "L", "L", ",", "\n", " ", " ", "[", "m", "]", " ", "m", "o", "n", "e", "y", " ", "N", "U", "L", "L", "\n", ")", "\n", "G", "O" >>
\* INSERT INTO [dbo].[t] VALUES ('[x]', N'y')\nGO
BlockInsert == << "I", "N", "S", "E", "R", "T", " ", "I", "N", "T", "O", " ", "[", "d", "b", "o", "]", ".", "[", "t", "]", " ", "V", "A", "L", "U", "E", "S", " ", "(", "'", "[", "x", "]", "'", ",", " ", "N", "'", "y", "'", ")", "\n", "G", "O" >>
\* ALTER TABLE [dbo].[t] ADD CONSTRAINT [PK_t] PRIMARY KEY CLUSTERED ([id
\* ])\nWITH (PAD_INDEX = OFF)\nON [PRIMARY]\nGO
BlockPrimaryKey == << "A", "L", "T", "E", "R", " ", "T", "A", "B", "L", "E", " ", "[", "d", "b", "o", "]", ".", "[", "t", "]", " ", "A", "D", "D", " ", "C", "O", "N", "S", "T", "R", "A", "I", "N", "T", " ", "[", "P", "K", "_", "t", "]", " ", "P", "R", "I", "M", "A", "R", "Y", " ", "K", "E", "Y", " ", "C", "L", "U", "S", "T", "E", "R", "E", "D", " ", "(", "[", "i", "d", "]", ")", "\n", "W", "I", "T", "H", " ", "(", "P", "A", "D", "_", "I", "N", "D", "E", "X", " ", "=", " ", "O", "F", "F", ")", "\n", "O", "N", " ", "[", "P", "R", "I", "M", "A", "R", "Y", "]", "\n", "G", "O" >>
\* -- ----------------------------\n-- Primary Key structure for table t\
\* n-- ----------------------------
BlockBanner == << "-", "-", " ", "-", "-", "-", "-", "-", "-", "-", "-", "-", "-", "-", "-", "-", "-", "-", "-", "-", "-", "-", "-", "-", "-", "-", "-", "-", "-", "-", "-", "\n", "-", "-", " ", "P", "r", "i", "m", "a", "r", "y", " ", "K", "e", "y", " ", "s", "t", "r", "u", "c", "t", "u", "r", "e", " ", "f", "o", "r", " ", "t", "a", "b", "l", "e", " ", "t", "\n", "-", "-", " ", "-", "-", "-", "-", "-", "-", "-", "-", "-", "-", "-", "-", "-", "-", "-", "-", "-", "-", "-", "-", "-", "-", "-", "-", "-", "-", "-", "-" >>
\* SET IDENTITY_INSERT [dbo].[t] ON\nGO\nSET IDENTITY_INSERT [t] OFF\nGO
BlockIdentity == << "S", "E", "T", " ", "I", "D", "E", "N", "T", "I", "T", "Y", "_", "I", "N", "S", "E", "R", "T", " ", "[", "d", "b", "o", "]", ".", "[", "t", "]", " ", "O", "N", "\n", "G", "O", "\n", "S", "E", "T", " ", "I", "D", "E", "N", "T", "I", "T", "Y", "_", "I", "N", "S", "E", "R", "T", " ", "[", "t", "]", " ", "O", "F", "F", "\n", "G", "O" >>
\* IF EXISTS (SELECT * FROM sys.all_objects WHERE object_id = OBJECT_ID(N
\* '[dbo].[t]') AND type IN ('U'))\n\tDROP TABLE [dbo].[t]\nGO\nALTER TAB
\* LE [dbo].[t] SET (LOCK_ESCALATION = TABLE)\nGO
BlockDrop == << "I", "F", " ", "E", "X", "I", "S", "T", "S", " ", "(", "S", "E", "L", "E", "C", "T", " ", "*", " ", "F", "R", "O", "M", " ", "s", "y", "s", ".", "a", "l", "l", "_", "o", "b", "j", "e", "c", "t", "s", " ", "W", "H", "E", "R", "E", " ", "o", "b", "j", "e", "c", "t", "_", "i", "d", " ", "=", " ", "O", "B", "J", "E", "C", "T", "_", "I", "D", "(", "N", "'", "[", "d", "b", "o", "]", ".", "[", "t", "]", "'", ")", " ", "A", "N", "D", " ", "t", "y", "p", "e", " ", "I", "N", " ", "(", "'", "U", "'", ")", ")", "\n", "\t", "D", "R", "O", "P", " ", "T", "A", "B", "L", "E", " ", "[", "d", "b", "o", "]", ".", "[", "t", "]", "\n", "G", "O", "\n", "A", "L", "T", "E", "R", " ", "T", "A", "B", "L", "E", " ", "[", "d", "b", "o", "]", ".", "[", "t", "]", " ", "S", "E", "T", " ", "(", "L", "O", "C", "K", "_", "E", "S", "C", "A", "L", "A", "T", "I", "O", "N", " ", "=", " ", "T", "A", "B", "L", "E", ")", "\n", "G", "O" >>
\* CREATE TABLE u (\n  n numeric(9) NULL\n);\n
BlockPlain == << "C", "R", "E", "A", "T", "E", " ", "T", "A", "B", "L", "E", " ", "u", " ", "(", "\n", " ", " ", "n", " ", "n", "u", "m", "e", "r", "i", "c", "(", "9", ")", " ", "N", "U", "L", "L", "\n", ")", ";", "\n" >>
\* SELECT 'Primary Key structure';
BlockPhrase == << "S", "E", "L", "E", "C", "T", " ", "'", "P", "r", "i", "m", "a", "r", "y", " ", "K", "e", "y", " ", "s", "t", "r", "u", "c", "t", "u", "r", "e", "'", ";" >>
\* INSERT INTO t VALUES ('JOHN', 'x');
BlockNames == << "I", "N", "S", "E", "R", "T", " ", "I", "N", "T", "O", " ", "t", " ", "V", "A", "L", "U", "E", "S", " ", "(", "'", "J", "O", "H", "N", "'", ",", " ", "'", "x", "'", ")", ";" >>

Blocks ==
    { BlockCreate, BlockInsert, BlockPrimaryKey, BlockBanner, BlockIdentity,
      BlockDrop, BlockPlain, BlockPhrase, BlockNames }

\* the sequences of 1 to n blocks
RECURSIVE BlockLists(_)
BlockLists(n) ==
    IF n = 0
    THEN { << >> }
    ELSE LET shorter == BlockLists(n - 1)
         IN  { << b >> : b \in Blocks }
                 \cup { Append(bs, b) : bs \in shorter \ { << >> }, b \in Blocks }

Documents ==
    { Join(<< "\n" >>, bs) : bs \in BlockLists(MaxBlocks) }

(***************************************************************************)
(* convert_sql_server_to_mysql as a state machine: the substitutions on    *)
(* the whole document, one step per line of the line filter, the rewrite   *)
(* of the CREATE TABLE statements and the collapse of blank lines.  A      *)
(* second application takes the text the first one returned.               *)
(***************************************************************************)
TranslateInit ==
    /\ tpc = "comments"
    /\ source \in Documents
    /\ content = source
    /\ all_lines = << >>
    /\ line_index = 0
    /\ output_lines = << >>
    /\ skip_everything = FALSE
    /\ created = << >>
    /\ converted = << >>
    /\ application = 1
    /\ first_source = source
    /\ first_created = << >>
    /\ SplitIdle
    /\ ConvertIdle
    /\ ExecIdle
    /\ MigrateIdle
    /\ PipelineIdle

\* one substitution on the whole document
DocumentStep(from, to, text) ==
    /\ tpc = from
    /\ tpc' = to
    /\ content' = text
    /\ UNCHANGED << outside_translate, source, all_lines, line_index,
                    output_lines, skip_everything, created, converted,
                    application, first_source, first_created >>

\* line 142
StripComments ==
    DocumentStep("comments", "drop", StripLineComments(content))

\* lines 154-155
ConvertDropTable ==
    DocumentStep("drop", "identity", DropTableConverted(content))

\* lines 163-167
ConvertIdentityInsert ==
    DocumentStep("identity", "lock", IdentityInsertConverted(content))

\* lines 175-176
RemoveLockEscalation ==
    DocumentStep("lock", "collate", LockEscalationRemoved(content))

\* lines 184-185
RemoveCollateAndDbo ==
    DocumentStep("collate", "unicode",
                 ReSub(DBO_PREFIX_PATTERN, << >>, StripCollate(content)))

\* line 193
UnwrapUnicode ==
    DocumentStep("unicode", "types", UnwrapUnicodeStrings(content))

\* lines 209-210
ConvertTypes ==
    DocumentStep("types", "go",
                 MoneyToDecimal(ReSub(NUMERIC_TO_DECIMAL_PATTERN, << "d", "e", "c", "i", "m", "a", "l" >>,
                                      content)))

\* line 218
ConvertGo ==
    DocumentStep("go", "split", ReSub(GO_STATEMENT_PATTERN, << ";" >>, content))

\* lines 226-231
SplitLines ==
    /\ tpc = "split"
    /\ all_lines' = SplitOn(content, << "\n" >>)
    /\ output_lines' = << >>
    /\ skip_everything' = FALSE
    /\ line_index' = 0
    /\ tpc' = "filter"
    /\ UNCHANGED << outside_translate, source, content, created, converted,
                    application, first_source, first_created >>

\* line 234: the line of this iteration
current_line ==
    RStrip(all_lines[line_index + 1])

\* lines 233-271: one iteration of the line filter
FilterLine ==
    /\ tpc = "filter"
    /\ line_index < Len(all_lines)
    /\ IF skip_everything \/ IsDumpComment(current_line)
       THEN UNCHANGED << skip_everything, output_lines >>
       ELSE IF IsTrigger(current_line)
            THEN /\ skip_everything' = TRUE
                 /\ UNCHANGED output_lines
            ELSE /\ \E processed \in {processed_line(current_line)} :
                        output_lines' =
                            IF LineKept(current_line, processed)
                            THEN Append(output_lines, processed)
                            ELSE output_lines
                 /\ UNCHANGED skip_everything
    /\ line_index' = line_index + 1
    /\ UNCHANGED << outside_translate, tpc, source, content, all_lines,
                    created, converted, application, first_source,
                    first_created >>

\* line 276
JoinLines ==
    /\ tpc = "filter"
    /\ line_index = Len(all_lines)
    /\ content' = Join(<< "\n" >>, output_lines)
    /\ tpc' = "rewrite"
    /\ UNCHANGED << outside_translate, source, all_lines, line_index,
                    output_lines, skip_everything, created, converted,
                    application, first_source, first_created >>

\* lines 283-358
RewriteTables ==
    /\ tpc = "rewrite"
    /\ \E ms \in {ReFindAll(create_table_pattern, content, 0)} :
           /\ created' = TableRewrites(content, ms)
           /\ content' = Substitute(content, ms, created', 1, 0)
    /\ first_created' = IF application = 1 THEN created' ELSE first_created
    /\ tpc' = "collapse"
    /\ UNCHANGED << outside_translate, source, all_lines, line_index,
                    output_lines, skip_everything, converted, application,
                    first_source >>

\* lines 363-365
CollapseAndReturn ==
    /\ tpc = "collapse"
    /\ converted' = CollapseBlankLines(content)
    /\ tpc' = "done"
    /\ UNCHANGED << outside_translate, source, content, all_lines,
                    line_index, output_lines, skip_everything, created,
                    application, first_source, first_created >>

\* convert_sql_server_to_mysql is called on the text it returned
Reapply ==
    /\ tpc = "done"
    /\ application = 1
    /\ source' = converted
    /\ application' = 2
    /\ tpc' = "comments"
    /\ content' = converted
    /\ all_lines' = << >>
    /\ line_index' = 0
    /\ output_lines' = << >>
    /\ skip_everything' = FALSE
    /\ created' = << >>
    /\ converted' = << >>
    /\ UNCHANGED << outside_translate, first_source, first_created >>

TranslateNext ==
    \/ StripComments
    \/ ConvertDropTable
    \/ ConvertIdentityInsert
    \/ RemoveLockEscalation
    \/ RemoveCollateAndDbo
    \/ UnwrapUnicode
    \/ ConvertTypes
    \/ ConvertGo
    \/ SplitLines
    \/ FilterLine
    \/ JoinLines
    \/ RewriteTables
    \/ CollapseAndReturn
    \/ Reapply

TranslateSpec ==
    TranslateInit /\ [][TranslateNext]_vars

\* the first application has returned
Translated ==
    tpc = "done" /\ application = 1

\* the second application has returned
Retranslated ==
    tpc = "done" /\ application = 2


(***************************************************************************)
(* Reference notions the properties are stated with: the quoting and       *)
(* nesting of a text as the specification defines them (a quote opens a    *)
(* region that the same quote closes, a backslash inside a region makes    *)
(* the next character data, nesting is counted outside regions).           *)
(***************************************************************************)
\* the lexical state after the first n characters of s
RECURSIVE RefLex(_, _)
RefLex(s, n) ==
    IF n = 0
    THEN [delim |-> "None", esc |-> FALSE]
    ELSE LET st == RefLex(s, n - 1)
             c == s[n]
         IN  IF st.esc
             THEN [st EXCEPT !.esc = FALSE]
             ELSE IF st.delim # "None" /\ c = "\\"
                  THEN [st EXCEPT !.esc = TRUE]
                  ELSE IF c \in {"'", "\""}
                       THEN IF st.delim = "None"
                            THEN [st EXCEPT !.delim = c]
                            ELSE IF st.delim = c
                                 THEN [st EXCEPT !.delim = "None"]
                                 ELSE st
                       ELSE st

\* the character at Python index k of s lies inside a quoted region
InsideString(s, k) ==
    RefLex(s, k).delim # "None"

\* every quote of s is paired
QuotesPaired(s) ==
    RefLex(s, Len(s)).delim = "None"

NoBackslash(s) ==
    \A k \in 1..Len(s) : s[k] # "\\"

NoCommentMarker(s) ==
    ~Contains(s, << "-", "-" >>) /\ ~Contains(s, << "/", "*" >>)

Openers == << "(", "[", "{" >>
Closers == << ")", "]", "}" >>

\* the openers of s that are still open after n characters, innermost last;
\* << "bad" >> once a closer met no matching opener
RECURSIVE OpenStack(_, _)
OpenStack(s, n) ==
    IF n = 0
    THEN << >>
    ELSE LET st == OpenStack(s, n - 1)
             c == s[n]
         IN  IF st = << "bad" >> \/ InsideString(s, n - 1)
                \/ RefLex(s, n).delim # "None"
             THEN st
             ELSE IF \E k \in 1..3 : Openers[k] = c
                  THEN Append(st, c)
                  ELSE IF \E k \in 1..3 : Closers[k] = c
                       THEN IF st # << >>
                               /\ \E k \in 1..3 : Openers[k] = st[Len(st)]
                                                  /\ Closers[k] = c
                            THEN SubSeq(st, 1, Len(st) - 1)
                            ELSE << "bad" >>
                       ELSE st

\* all quotes paired, all openers closed in order
WellFormed(s) ==
    QuotesPaired(s) /\ OpenStack(s, Len(s)) = << >>

\* occurrences of c in s outside quoted regions
OutsideCount(s, c) ==
    Cardinality({k \in 1..Len(s) : s[k] = c /\ ~InsideString(s, k - 1)
                                   /\ RefLex(s, k).delim = "None"})

\* as many closers as openers of each kind, outside quoted regions
NetDepthZero(s) ==
    \A k \in 1..3 : OutsideCount(s, Openers[k]) = OutsideCount(s, Closers[k])

\* the list the latest pass produced
CurrentList ==
    IF pc = "done" THEN filtered_statements
    ELSE IF pc = "filter" THEN final_statements
    ELSE statements

\* s without its character at position q
Without(s, q) ==
    SubSeq(s, 1, q - 1) \o SubSeq(s, q + 1, Len(s))

\* stmt is the text of sql_content at index o, up to a last character the
\* post-pass wrote and one quote the repair inserted
Anchored(stmt, o) ==
    \E g \in {stmt} \cup {Without(stmt, q) : q \in {k \in 1..Len(stmt) : stmt[k] = "'"}} :
        /\ g # << >>
        /\ MatchAt(sql_content, o, SubSeq(g, 1, Len(g) - 1))
        /\ Len(g) = 1 => CharAt(sql_content, o) = g[1]

(***************************************************************************)
(* Properties.                                                             *)
(***************************************************************************)
\* SELECT 'a;b' FROM t
ResSemicolonInString ==
    << << "S", "E", "L", "E", "C", "T", " ", "'", "a", ";", "b", "'", " ",
          "F", "R", "O", "M", " ", "t" >> >>

C2_DoubledQuoteIsData ==
    [][/\ (/\ InLoop
           /\ in_string
           /\ char = string_char
           /\ ~RefLex(sql_content, i).esc
           /\ CharAt(sql_content, i + 1) = char)
          => (/\ current_statement' = current_statement \o << char, char >>
              /\ i' = i + 2
              /\ in_string')
       /\ (InLoop /\ in_string /\ ~in_string')
          => (char = string_char /\ CharAt(sql_content, i + 1) # char)]_vars

\* SELECT 'a\nb' and SELECT 2
ResEscapedChar ==
    << << "S", "E", "L", "E", "C", "T", " ", "'", "a", "\\", "n", "b", "'" >>,
       << "S", "E", "L", "E", "C", "T", " ", "2" >> >>

\* C4: a backslash inside a quoted region escapes only the character after
\* it: escape is pending only right after a backslash, so the next matching
\* quote closes the string and SELECT 'a\nb'; SELECT 2; yields two
\* statements.
C4_EscapeCoversOneChar ==
    /\ (pc = "scan" /\ escape_next)
       => (i > 0 /\ CharAt(sql_content, i - 1) = "\\")
    /\ (Returned /\ raw = ExEscapedChar)
       => filtered_statements = ResEscapedChar

\* CREATE TABLE t (a INT, b INT)
ResNestedParens ==
    << << "C", "R", "E", "A", "T", "E", " ", "T", "A", "B", "L", "E", " ", "t",
          " ", "(", "a", " ", "I", "N", "T", ",", " ", "b", " ", "I", "N",
          "T", ")" >> >>

\* C3: a ';' met outside a string ends the current statement exactly when
\* the three counters are zero, and is appended as data when one of them is
\* positive; split("CREATE TABLE t (a INT, b INT);") is one statement.
C3_TerminatorIffCountersZero ==
    /\ [][(InLoop /\ char = ";" /\ ~in_string)
          => IF paren_count = 0 /\ bracket_count = 0 /\ brace_count = 0
             THEN /\ current_statement' = << >>
                  /\ statements' =
                         IF Strip(current_statement) # << >>
                         THEN Append(statements, Strip(current_statement))
                         ELSE statements
             ELSE /\ current_statement' = Append(current_statement, ";")
                  /\ statements' = statements]_vars
    /\ [](Returned /\ raw = ExNestedParens
          => filtered_statements = ResNestedParens)

\* a ';' was kept as data under an open bracket, and a later one ended the
\* statement
C3_Witness ==
    /\ pc = "scan"
    /\ ~in_string
    /\ \E k \in 1..Len(statements) :
           Contains(statements[k], << "[", "c", ";", "]" >>)

\* C5: the statements of every pass are in source order: each starts, in
\* the scanned text, after the one before it in the list.
C5_SourceOrderKept ==
    /\ Len(origins) = Len(CurrentList)
    /\ \A k \in 1..Len(origins) :
           /\ Anchored(CurrentList[k], origins[k])
           /\ \A j \in 1..(k - 1) : origins[j] < origins[k]

\* the multi-INSERT pass has split a statement and the filter pass has
\* dropped one, and two or more statements are returned
C5_Witness ==
    /\ Returned
    /\ Len(final_statements) > Len(statements)
    /\ Len(filtered_statements) < Len(final_statements)
    /\ Len(filtered_statements) >= 2

\* the inputs on which "escaped" and "paired" have one reading only
PlainInput ==
    NoBackslash(raw) /\ NoCommentMarker(raw)

\* C6: when every quote of the input is paired, every returned statement
\* has an even number of quotes of each kind (it does not end inside a
\* quoted region); stated for the inputs without backslashes and comment
\* markers, which the claim covers.
C6_QuoteBalancePreserved ==
    (Returned /\ PlainInput /\ QuotesPaired(raw))
    => \A k \in 1..Len(filtered_statements) :
           QuotesPaired(filtered_statements[k])

\* C7: for a well-formed input, every returned statement has as many
\* closers as openers of each kind outside its string literals; stated for
\* the inputs without backslashes and comment markers, which the claim
\* covers.
C7_NestingClosure ==
    (Returned /\ PlainInput /\ WellFormed(raw))
    => \A k \in 1..Len(filtered_statements) :
           NetDepthZero(filtered_statements[k])

\* the phases of split_sql_statements, in program order
PhaseRank ==
    [start |-> 0, scan |-> 1, post |-> 2, filter |-> 3, done |-> 4]

\* C8: the scan is total: every iteration advances i by 1 or 2 and i never
\* passes the end of the text, no index past the end is read (nothing
\* raises), and every other step moves on to the next phase, so the
\* function returns after at most len(sql_content) iterations.
C8_ScanTotal ==
    /\ [][IF pc = "scan" /\ pc' = "scan"
          THEN i' = i + 1 \/ i' = i + 2
          ELSE PhaseRank[pc'] = PhaseRank[pc] + 1]_vars
    /\ [](/\ i >= 0
          /\ i <= Len(sql_content)
          /\ max_read < Len(sql_content) \/ max_read = -1)

\* a text ending in a quote inside a string, after an unbalanced opener and
\* a backslash, has been split
C8_Witness ==
    /\ Returned
    /\ Len(sql_content) > 0
    /\ in_string
    /\ escape_next
    /\ paren_count > 0
    /\ CharAt(sql_content, Len(sql_content) - 1) = "'"

(***************************************************************************)
(* The CREATE TABLE rewrite: properties.                                   *)
(***************************************************************************)
\* the integer type tokens of a column definition
IntegerTypes ==
    { << "i", "n", "t" >>, << "b", "i", "g", "i", "n", "t" >>, << "s", "m", "a", "l", "l", "i", "n", "t" >>, << "t", "i", "n", "y", "i", "n", "t" >> }

\* the blank-separated tokens of a column definition
Tokens(s) ==
    SplitOn(s, << " " >>)

\* a column definition <name> <integer type> IDENTITY(...) ..., with the
\* specifier written as the code looks for it (line 312)
IdentityIntegerColumn(s) ==
    /\ Len(Tokens(s)) >= 3
    /\ \E ty \in IntegerTypes : Upper(Tokens(s)[2]) = Upper(ty)
    /\ MatchAt(Tokens(s)[3], 0, kwIDENTITY_OPEN)

\* C9: in the rewritten body, every column line that had an identity
\* specifier on an integer-typed column (int, bigint, ...) has lost the
\* specifier and has AUTO_INCREMENT right after its type token (the case of
\* the type token's letters is not compared).
C9_IdentityBecomesAutoIncrement ==
    Rewritten
    => \A k \in 1..Len(source_lines) :
           IdentityIntegerColumn(source_lines[k])
           => /\ ~Contains(Upper(processed_lines[k]), kwIDENTITY_OPEN)
              /\ Len(Tokens(processed_lines[k])) >= 3
              /\ Upper(Tokens(processed_lines[k])[2])
                     = Upper(Tokens(source_lines[k])[2])
              /\ Tokens(processed_lines[k])[3] = kwAUTO_INCREMENT

\* C10: once a primary-key candidate is recorded, no later line of the
\* body replaces it.
C10_FirstCandidateWins ==
    [][primary_key_col # None => primary_key_col' = primary_key_col]_vars

(***************************************************************************)
(* convert_sql_server_to_mysql: brackets and string literals, the line     *)
(* filter, a second application, and the primary-key declaration.          *)
(***************************************************************************)
\* the indices (1-based) of the single quotes of s, in order
QuotePositions(s) ==
    SortedSeq({p \in 1..Len(s) : s[p] = "'"})

\* the contents of the single-quoted string literals of s
Literals(s) ==
    LET q == QuotePositions(s)
    IN  { SubSeq(s, q[2 * k - 1] + 1, q[2 * k] - 1) : k \in 1..(Len(q) \div 2) }

\* the character at index p (1-based) of s is outside every string literal
OutsideLiterals(s, p) ==
    /\ s[p] # "'"
    /\ Cardinality({k \in 1..(p - 1) : s[k] = "'"}) % 2 = 0

\* C11: in the text returned no bracket is left outside the string
\* literals, and every string literal of the text returned has the content
\* of a string literal of the input: '[x]' is returned as '[x]'.
C11_LiteralsKeepBrackets ==
    Translated
    => /\ \A p \in 1..Len(converted) :
              OutsideLiterals(converted, p) => converted[p] \notin {"[", "]"}
       /\ Literals(converted) \subseteq Literals(first_source)

\* this iteration of the loop of line 233 has been made
FilterStep ==
    tpc = "filter" /\ line_index' = line_index + 1

\* the line holds the three phrases of a primary-key declaration together,
\* or the phrase of the banner
HoldsTriggerPhrases(ln) ==
    \/ /\ Contains(ln, << "A", "L", "T", "E", "R", " ", "T", "A", "B", "L", "E" >>)
       /\ Contains(ln, << "A", "D", "D", " ", "C", "O", "N", "S", "T", "R", "A", "I", "N", "T" >>)
       /\ Contains(ln, << "P", "R", "I", "M", "A", "R", "Y", " ", "K", "E", "Y" >>)
    \/ Contains(ln, << "P", "r", "i", "m", "a", "r", "y", " ", "K", "e", "y", " ", "s", "t", "r", "u", "c", "t", "u", "r", "e" >>)

C13_SecondApplicationKeepsTables ==
    Retranslated
    => \A k \in 1..Len(first_created) : Contains(converted, first_created[k])

\* the contents of the single-quoted string literals of s, in order
LiteralSeq(s) ==
    LET q == QuotePositions(s)
    IN  [k \in 1..(Len(q) \div 2) |->
            SubSeq(s, q[2 * k - 1] + 1, q[2 * k] - 1)]

\* C22: the unwrap of line 193 changes no character inside a string
\* literal: the document holds the same string literals, in the same
\* order, before and after it, so 'JOHN', 'x' keeps its N.
C22_UnwrapKeepsLiterals ==
    [][(tpc = "unicode" /\ tpc' = "types")
        => LiteralSeq(content') = LiteralSeq(content)]_vars

\* C19: when the input holds a primary-key declaration with a WITH (...)
\* clause and an ON <filegroup> clause, the text returned holds no such
\* declaration and holds every INSERT and CREATE TABLE statement of the
\* input.
C19_OnlyDeclarationRemoved ==
    (/\ Translated
     /\ Contains(first_source, BlockPrimaryKey)
     /\ ~Contains(first_source, << "P", "r", "i", "m", "a", "r", "y", " ", "K", "e", "y", " ", "s", "t", "r", "u", "c", "t", "u", "r", "e" >>))
    => /\ ~Contains(converted, << "A", "D", "D", " ", "C", "O", "N", "S", "T", "R", "A", "I", "N", "T" >>)
       /\ Count(converted, << "I", "N", "S", "E", "R", "T", " ", "I", "N", "T", "O" >>) = Count(first_source, << "I", "N", "S", "E", "R", "T", " ", "I", "N", "T", "O" >>)
       /\ Count(converted, << "C", "R", "E", "A", "T", "E", " ", "T", "A", "B", "L", "E" >>) = Count(first_source, << "C", "R", "E", "A", "T", "E", " ", "T", "A", "B", "L", "E" >>)

(***************************************************************************)
(* split_sql_statements: the nesting counters and the quote repair.        *)
(***************************************************************************)
\* the text ");a;": a closer with no opener, then two terminators
ExUnbalancedCloser ==
    << ")", ";", "a", ";" >>

\* C18: the three nesting counters are never negative, a closer read
\* outside a string at counter zero leaves the counter at zero, no character
\* read inside a string changes a counter, and after an unbalanced closer
\* the next top-level ';' still ends the statement.
C18_CountersNeverNegative ==
    /\ [](paren_count >= 0 /\ bracket_count >= 0 /\ brace_count >= 0)
    /\ [][(InLoop /\ in_string)
           => UNCHANGED << paren_count, bracket_count, brace_count >>]_vars
    /\ [][(InLoop /\ ~in_string /\ ~IsQuoteStep /\ ~IsBackslashStep)
           => /\ (char = ")" /\ paren_count = 0) => paren_count' = 0
              /\ (char = "]" /\ bracket_count = 0) => bracket_count' = 0
              /\ (char = "}" /\ brace_count = 0) => brace_count' = 0]_vars
    /\ []((Returned /\ raw = ExUnbalancedCloser)
           => filtered_statements = << << ")" >>, << "a" >> >>)

\* the text ");a;" has been split after its closer was read at counter zero
C18_Witness ==
    /\ Returned
    /\ raw = ExUnbalancedCloser
    /\ paren_count = 0
    /\ Len(filtered_statements) = 2

\* C20: every statement returned has an even number of unescaped single
\* quotes.
C20_OddQuotesRepaired ==
    Returned
    => \A k \in 1..Len(filtered_statements) :
           quote_count(filtered_statements[k]) % 2 = 0

\* the characters of s that are not whitespace, in order
NonSpace(s) ==
    SelectSeq(s, LAMBDA c : ~IsSpace(c))

\* a occurs in b as a subsequence: b[from..] holds a[k..] in order
RECURSIVE IsSubsequenceFrom(_, _, _, _)
IsSubsequenceFrom(a, k, b, from) ==
    IF k > Len(a)
    THEN TRUE
    ELSE IF from > Len(b)
         THEN FALSE
         ELSE IF a[k] = b[from]
              THEN IsSubsequenceFrom(a, k + 1, b, from + 1)
              ELSE IsSubsequenceFrom(a, k, b, from + 1)

IsSubsequence(a, b) ==
    IsSubsequenceFrom(a, 1, b, 1)

\* C23: when the filter pass drops nothing, the returned statements hold
\* every non-whitespace character of the statements of the primary scan,
\* in order: the post-passes only add ';' terminators and closing quotes.
C23_PostPassesKeepText ==
    (/\ Returned
     /\ \A k \in 1..Len(final_statements) : ~Dropped(final_statements[k]))
        => IsSubsequence(NonSpace(Flatten(statements)),
                         NonSpace(Flatten(filtered_statements)))

(***************************************************************************)
(* mysql_sql_executor.py: execute_sql_file (lines 465-669).  The database  *)
(* and the file system are the environment: each call that can raise       *)
(* (reading the file, pymysql.connect, cursor.execute, connection.commit,  *)
(* the write of the error record, connection.rollback) is a choice between *)
(* returning and raising.  cursor.close() and connection.close() return.   *)
(***************************************************************************)
\* the calls of the loop's try body that raise pymysql.Error (lines 578, 579)
Failures ==
    {"execute", "commit"}

\* a record left in sql_execution_errors.jsonl by an earlier run
StaleRecord ==
    [statement_index |-> 0]

\* total_statements of the runs
StatementCounts ==
    0..MaxStatements

ExecInit ==
    /\ epc = "start"
    /\ dry_run \in BOOLEAN
    /\ total_statements \in StatementCounts
    /\ stmt_index = 0
    /\ success_count = 0
    /\ error_count = 0
    /\ connection = "None"
    /\ cursor = "None"
    /\ open_connections = 0
    /\ error_log \in {<< >>, << StaleRecord >>}
    /\ executed = << >>
    /\ outcomes = << >>
    /\ boundaries = << >>
    /\ summaries = << >>
    /\ raised = FALSE
    /\ returned_value = "None"
    /\ SplitIdle
    /\ ConvertIdle
    /\ TranslateIdle
    /\ MigrateIdle
    /\ PipelineIdle

\* lines 471-493: the old error log is removed, the file is read and split
ReadAndSplit ==
    /\ epc = "start"
    /\ error_log' = << >>
    /\ epc' = "parsed"
    /\ UNCHANGED << outside_exec, dry_run, total_statements, stmt_index,
                    success_count, error_count, connection, cursor,
                    open_connections, executed, outcomes, boundaries,
                    summaries, raised, returned_value >>

\* lines 474-481 raise (the file cannot be removed or read), lines 661-669
ReadFails ==
    /\ epc = "start"
    /\ \E removed \in BOOLEAN :
           error_log' = IF removed THEN << >> ELSE error_log
    /\ raised' = TRUE
    /\ returned_value' = "False"
    /\ epc' = "returned"
    /\ UNCHANGED << outside_exec, dry_run, total_statements, stmt_index,
                    success_count, error_count, connection, cursor,
                    open_connections, executed, outcomes, boundaries,
                    summaries >>

\* a call of print_execution_summary
Summary(succeeded, failed) ==
    [total_statements |-> total_statements,
     success_count |-> succeeded,
     error_count |-> failed]

\* lines 495-514: the dry run
DryRun ==
    /\ epc = "parsed"
    /\ dry_run
    /\ summaries' = Append(summaries, Summary(total_statements, 0))
    /\ returned_value' = "True"
    /\ epc' = "returned"
    /\ UNCHANGED << outside_exec, dry_run, total_statements, stmt_index,
                    success_count, error_count, connection, cursor,
                    open_connections, error_log, executed, outcomes,
                    boundaries, raised >>

\* lines 517-534: the connection and its cursor
Connect ==
    /\ epc = "parsed"
    /\ ~dry_run
    /\ connection' = "open"
    /\ cursor' = "open"
    /\ open_connections' = open_connections + 1
    /\ success_count' = 0
    /\ error_count' = 0
    /\ epc' = "charset"
    /\ UNCHANGED << outside_exec, dry_run, total_statements, stmt_index,
                    error_log, executed, outcomes, boundaries, summaries,
                    raised, returned_value >>

\* line 524 raises: connection and cursor stay None
ConnectFails ==
    /\ epc = "parsed"
    /\ ~dry_run
    /\ raised' = TRUE
    /\ epc' = "finally"
    /\ UNCHANGED << outside_exec, dry_run, total_statements, stmt_index,
                    success_count, error_count, connection, cursor,
                    open_connections, error_log, executed, outcomes,
                    boundaries, summaries, returned_value >>

\* lines 537-548: the session character set
SetCharset ==
    /\ epc = "charset"
    /\ epc' = "loop"
    /\ UNCHANGED << outside_exec, dry_run, total_statements, stmt_index,
                    success_count, error_count, connection, cursor,
                    open_connections, error_log, executed, outcomes,
                    boundaries, summaries, raised, returned_value >>

\* one of lines 537-539 raises
SetCharsetFails ==
    /\ epc = "charset"
    /\ raised' = TRUE
    /\ epc' = "finally"
    /\ UNCHANGED << outside_exec, dry_run, total_statements, stmt_index,
                    success_count, error_count, connection, cursor,
                    open_connections, error_log, executed, outcomes,
                    boundaries, summaries, returned_value >>

\* the loop of line 551 has a next statement
HasNext ==
    epc = "loop" /\ stmt_index < total_statements

\* a loop that stops at the first failed statement
AbortAfterFailure ==
    "finally"

\* line 641: after the handler the loop goes on with the next statement
AfterHandler ==
    "loop"

\* transaction boundaries kept for one commit at the end
BoundariesBatched(kind) ==
    boundaries

\* lines 579 and 637: the boundary that ends the current statement's
\* transaction
BoundariesAfter(kind) ==
    Append(boundaries, [statement |-> stmt_index + 1, kind |-> kind])

\* a handler that forgets to count the failure
ErrorCountForgotten ==
    error_count

\* line 586
ErrorCountAfterFailure ==
    error_count + 1

\* lines 592-603 and 630-631: the record appended to the error log
ErrorRecord ==
    [statement_index |-> stmt_index + 1]

\* lines 551-583: the statement is executed and committed
ExecuteOk ==
    /\ HasNext
    /\ stmt_index' = stmt_index + 1
    /\ executed' = Append(executed, stmt_index + 1)
    /\ outcomes' = Append(outcomes, "ok")
    /\ boundaries' = BoundariesAfter("commit")
    /\ success_count' = success_count + 1
    /\ UNCHANGED << outside_exec, epc, dry_run, total_statements, error_count,
                    connection, cursor, open_connections, error_log,
                    summaries, raised, returned_value >>

\* line 578 or line 579 raises pymysql.Error and the handler of lines
\* 585-641 runs to its end
ExecuteFails ==
    /\ HasNext
    /\ \E at \in Failures :
           outcomes' = Append(outcomes, at)
    /\ stmt_index' = stmt_index + 1
    /\ executed' = Append(executed, stmt_index + 1)
    /\ error_count' = ErrorCountAfterFailure
    /\ error_log' = Append(error_log, ErrorRecord)
    /\ boundaries' = BoundariesAfter("rollback")
    /\ epc' = AfterHandler
    /\ UNCHANGED << outside_exec, dry_run, total_statements, success_count,
                    connection, cursor, open_connections, summaries, raised,
                    returned_value >>

\* line 578 raises an exception that is not a pymysql.Error: no handler of
\* the loop catches it
ExecuteRaises ==
    /\ HasNext
    /\ stmt_index' = stmt_index + 1
    /\ executed' = Append(executed, stmt_index + 1)
    /\ outcomes' = Append(outcomes, "raised")
    /\ raised' = TRUE
    /\ epc' = "finally"
    /\ UNCHANGED << outside_exec, dry_run, total_statements, success_count,
                    error_count, connection, cursor, open_connections,
                    error_log, boundaries, summaries, returned_value >>

\* the handler itself raises: at the write of the record (lines 630-631) or
\* at the rollback (line 637)
HandlerRaises ==
    /\ HasNext
    /\ \E at \in Failures :
           outcomes' = Append(outcomes, at)
    /\ stmt_index' = stmt_index + 1
    /\ executed' = Append(executed, stmt_index + 1)
    /\ error_count' = ErrorCountAfterFailure
    /\ \E written \in BOOLEAN :
           error_log' = IF written THEN Append(error_log, ErrorRecord)
                                   ELSE error_log
    /\ raised' = TRUE
    /\ epc' = "finally"
    /\ UNCHANGED << outside_exec, dry_run, total_statements, success_count,
                    connection, cursor, open_connections, boundaries,
                    summaries, returned_value >>

\* lines 643-646: the summary after the loop
LoopEnd ==
    /\ epc = "loop"
    /\ ~(stmt_index < total_statements)
    /\ summaries' = Append(summaries, Summary(success_count, error_count))
    /\ epc' = "finally"
    /\ UNCHANGED << outside_exec, dry_run, total_statements, stmt_index,
                    success_count, error_count, connection, cursor,
                    open_connections, error_log, executed, outcomes,
                    boundaries, raised, returned_value >>

\* a finally block that leaves the connection as it is
LeftOpen(c) ==
    c

\* lines 649-652: close() of the cursor or connection c when it is not None
Closed(c) ==
    IF c # "None" THEN "closed" ELSE c

\* lines 648-669: the finally block, then the return of line 646 or the
\* handler of lines 661-669
Finally ==
    /\ epc = "finally"
    /\ cursor' = Closed(cursor)
    /\ connection' = Closed(connection)
    /\ open_connections' =
           IF connection = "open" /\ Closed(connection) = "closed"
           THEN open_connections - 1
           ELSE open_connections
    /\ returned_value' = IF raised THEN "False" ELSE "True"
    /\ epc' = "returned"
    /\ UNCHANGED << outside_exec, dry_run, total_statements, stmt_index,
                    success_count, error_count, error_log, executed,
                    outcomes, boundaries, summaries, raised >>

ExecNext ==
    \/ ReadAndSplit
    \/ ReadFails
    \/ DryRun
    \/ Connect
    \/ ConnectFails
    \/ SetCharset
    \/ SetCharsetFails
    \/ ExecuteOk
    \/ ExecuteFails
    \/ ExecuteRaises
    \/ HandlerRaises
    \/ LoopEnd
    \/ Finally

ExecSpec ==
    ExecInit /\ [][ExecNext]_vars

(***************************************************************************)
(* execute_sql_file: properties.                                           *)
(***************************************************************************)
\* the sequence 1, 2, ..., n
UpTo(n) ==
    [k \in 1..n |-> k]

\* execute_sql_file got its connection and no exception is propagating
Unbroken ==
    ~dry_run /\ connection # "None" /\ ~raised

C15_SummaryCounts ==
    /\ [](Len(summaries) <= 1)
    /\ [](summaries # << >>
           => /\ summaries[1].total_statements = total_statements
              /\ summaries[1].success_count + summaries[1].error_count
                     = total_statements
              /\ ~dry_run => stmt_index = total_statements)
    /\ [](returned_value = "True" => Len(summaries) = 1)
    /\ [](epc = "loop"
           => /\ success_count + error_count = stmt_index
              /\ Len(error_log) = error_count)

\* a run with successes and failures has reported its summary
C15_Witness ==
    /\ returned_value = "True"
    /\ ~dry_run
    /\ Len(summaries) = 1
    /\ summaries[1].success_count >= 1
    /\ summaries[1].error_count >= 1

\* C16: at every head of the loop each statement processed so far has
\* exactly one transaction boundary of its own, a commit if it succeeded
\* and a rollback if it failed, and no step makes more than one boundary.
C16_OwnTransaction ==
    /\ [](epc = "loop"
           => /\ Len(boundaries) = stmt_index
              /\ \A k \in 1..Len(boundaries) :
                     boundaries[k] =
                         [statement |-> k,
                          kind |-> IF outcomes[k] = "ok" THEN "commit"
                                                        ELSE "rollback"])
    /\ [][Len(boundaries') <= Len(boundaries) + 1]_vars

\* the loop is about to take a third statement after a commit and a
\* rollback
C16_Witness ==
    /\ HasNext
    /\ \E j, k \in 1..Len(boundaries) :
           boundaries[j].kind = "commit" /\ boundaries[k].kind = "rollback"

\* C17: at most one connection is open at any time, and when the function
\* has returned no connection is open, on every path.
C17_ConnectionClosed ==
    /\ [](open_connections <= 1)
    /\ [](epc = "returned" => open_connections = 0 /\ connection # "open")

\* the function has returned after an exception raised inside the
\* per-statement error handler, with its connection closed
C17_Witness ==
    /\ epc = "returned"
    /\ connection = "closed"
    /\ raised
    /\ outcomes # << >>
    /\ outcomes[Len(outcomes)] \in Failures

(***************************************************************************)
(* migrate_sql_server_to_mysql.py: main (lines 49-115) and run_command     *)
(* (lines 31-46).  The two steps are subprocesses: the convert step is     *)
(* main of sql_server_to_mysql.py, whose exit status is the environment's  *)
(* choice; the execute step is main of mysql_sql_executor.py (lines        *)
(* 705-749), which calls execute_sql_file, modelled by the actions above.  *)
(***************************************************************************)
\* what subprocess.run does with a command (lines 36-46): the process
\* exits with status 0, exits with another status (CalledProcessError), or
\* cannot be started (an exception run_command does not catch)
CommandOutcomes ==
    {"0", "1", "raised"}

MigrateInit ==
    /\ mpc = "start"
    /\ sql_file_exists \in BOOLEAN
    /\ database_set \in BOOLEAN
    /\ execute_only \in BOOLEAN
    /\ convert_only \in BOOLEAN
    /\ convert_exit = "None"
    /\ executor_exit = "None"
    /\ completion_reported = FALSE
    /\ exit_code = "None"
    /\ SplitIdle
    /\ ConvertIdle
    /\ ExecIdle
    /\ TranslateIdle
    /\ PipelineIdle

\* lines 56-58: the input file must exist
CheckInputFile ==
    /\ mpc = "start"
    /\ IF sql_file_exists
       THEN /\ mpc' = "config"
            /\ UNCHANGED exit_code
       ELSE /\ mpc' = "done"
            /\ exit_code' = "1"
    /\ UNCHANGED << outside_migrate, exec_state, sql_file_exists,
                    database_set, execute_only, convert_only, convert_exit,
                    executor_exit, completion_reported >>

\* lines 67-79: the database name must be given
CheckDatabase ==
    /\ mpc = "config"
    /\ IF database_set
       THEN /\ mpc' = "convert"
            /\ UNCHANGED exit_code
       ELSE /\ mpc' = "done"
            /\ exit_code' = "1"
    /\ UNCHANGED << outside_migrate, exec_state, sql_file_exists,
                    database_set, execute_only, convert_only, convert_exit,
                    executor_exit, completion_reported >>

\* lines 89-94 with run_command: the convert step
ConvertStep ==
    /\ mpc = "convert"
    /\ IF execute_only
       THEN /\ mpc' = "execute"
            /\ UNCHANGED << convert_exit, exit_code >>
       ELSE \E outcome \in CommandOutcomes :
                /\ convert_exit' = IF outcome = "raised" THEN "None" ELSE outcome
                /\ IF outcome = "0"
                   THEN /\ mpc' = "execute"
                        /\ UNCHANGED exit_code
                   ELSE /\ mpc' = "done"
                        /\ exit_code' = "1"
    /\ UNCHANGED << outside_migrate, exec_state, sql_file_exists,
                    database_set, execute_only, convert_only, executor_exit,
                    completion_reported >>

\* line 97 with --convert-only: no execute step; lines 110-111
SkipExecute ==
    /\ mpc = "execute"
    /\ convert_only
    /\ completion_reported' = TRUE
    /\ exit_code' = "0"
    /\ mpc' = "done"
    /\ UNCHANGED << outside_migrate, exec_state, sql_file_exists,
                    database_set, execute_only, convert_only, convert_exit,
                    executor_exit >>

\* lines 97-107, run_command line 37: the executor subprocess starts
StartExecutor ==
    /\ mpc = "execute"
    /\ ~convert_only
    /\ mpc' = "executor_main"
    /\ UNCHANGED << outside_migrate, exec_state, sql_file_exists,
                    database_set, execute_only, convert_only, convert_exit,
                    executor_exit, completion_reported, exit_code >>

\* subprocess.run raises for the executor command: lines 113-115
ExecutorCannotStart ==
    /\ mpc = "execute"
    /\ ~convert_only
    /\ exit_code' = "1"
    /\ mpc' = "done"
    /\ UNCHANGED << outside_migrate, exec_state, sql_file_exists,
                    database_set, execute_only, convert_only, convert_exit,
                    executor_exit, completion_reported >>

\* mysql_sql_executor.py main, line 712 raises (the converted file is
\* missing or empty): lines 746-749
ExecutorRejectsFile ==
    /\ mpc = "executor_main"
    /\ executor_exit' = "1"
    /\ mpc' = "executed"
    /\ UNCHANGED << outside_migrate, exec_state, sql_file_exists,
                    database_set, execute_only, convert_only, convert_exit,
                    completion_reported, exit_code >>

\* mysql_sql_executor.py main, line 742: execute_sql_file is entered; the
\* orchestrator passes no --dry-run
ExecutorCallsBatch ==
    /\ mpc = "executor_main"
    /\ epc = "idle"
    /\ epc' = "start"
    /\ dry_run' = FALSE
    /\ total_statements' \in StatementCounts
    /\ error_log' \in {<< >>, << StaleRecord >>}
    /\ mpc' = "executor_batch"
    /\ UNCHANGED << outside_migrate, stmt_index, success_count, error_count,
                    connection, cursor, open_connections, executed, outcomes,
                    boundaries, summaries, raised, returned_value,
                    sql_file_exists, database_set, execute_only,
                    convert_only, convert_exit, executor_exit,
                    completion_reported, exit_code >>

\* mysql_sql_executor.py main, lines 742-744: success is assigned and not
\* read; the exit status is 0
ExecutorReturns ==
    /\ mpc = "executor_batch"
    /\ epc = "returned"
    /\ executor_exit' = "0"
    /\ mpc' = "executed"
    /\ UNCHANGED << outside_migrate, exec_state, sql_file_exists,
                    database_set, execute_only, convert_only, convert_exit,
                    completion_reported, exit_code >>

\* run_command lines 37-46 and main lines 107-111 once the executor exits
ExecuteStepEnds ==
    /\ mpc = "executed"
    /\ IF executor_exit = "0"
       THEN /\ completion_reported' = TRUE
            /\ exit_code' = "0"
       ELSE /\ exit_code' = "1"
            /\ UNCHANGED completion_reported
    /\ mpc' = "done"
    /\ UNCHANGED << outside_migrate, exec_state, sql_file_exists,
                    database_set, execute_only, convert_only, convert_exit,
                    executor_exit >>

MigrateNext ==
    \/ CheckInputFile
    \/ CheckDatabase
    \/ ConvertStep
    \/ SkipExecute
    \/ StartExecutor
    \/ ExecutorCannotStart
    \/ ExecutorRejectsFile
    \/ ExecutorCallsBatch
    \/ ReadAndSplit
    \/ ReadFails
    \/ Connect
    \/ ConnectFails
    \/ SetCharset
    \/ SetCharsetFails
    \/ ExecuteOk
    \/ ExecuteFails
    \/ ExecuteRaises
    \/ HandlerRaises
    \/ LoopEnd
    \/ Finally
    \/ ExecutorReturns
    \/ ExecuteStepEnds

MigrateSpec ==
    MigrateInit /\ [][MigrateNext]_vars

(***************************************************************************)
(* main of migrate_sql_server_to_mysql.py: properties.                     *)
(***************************************************************************)
\* C24: main returns 0 and reports completion only if every step it ran
\* succeeded; after a failed convert step the executor is never started
\* and 1 is returned; and when execute_sql_file returns False main returns
\* 1 and does not report completion.
C24_CompletionOnlyOnSuccess ==
    /\ [](completion_reported =>
              /\ convert_exit # "1"
              /\ executor_exit # "1"
              /\ returned_value # "False")
    /\ [](exit_code = "0" => completion_reported)
    /\ [](convert_exit = "1" =>
              /\ mpc = "done"
              /\ exit_code = "1"
              /\ epc = "idle"
              /\ executor_exit = "None")
    /\ []((mpc = "done" /\ returned_value = "False") =>
              /\ exit_code = "1"
              /\ ~completion_reported)

(***************************************************************************)
(* The two steps of the migration on one document: the text is translated  *)
(* by convert_sql_server_to_mysql (sql_server_to_mysql.py main, line 419)  *)
(* and the translated text is split by split_sql_statements                *)
(* (mysql_sql_executor.py execute_sql_file, lines 480-484).  The document  *)
(* is first split untranslated, for reference.                             *)
(***************************************************************************)
\* INSERT INTO u VALUES (1, '"');
StatementInsert == << "I", "N", "S", "E", "R", "T", " ", "I", "N", "T", "O", " ", "u", " ", "V", "A", "L", "U", "E", "S", " ", "(", "1", ",", " ", "'", "\"", "'", ")", ";" >>

\* UPDATE u SET s = 'a\b';
StatementUpdate == << "U", "P", "D", "A", "T", "E", " ", "u", " ", "S", "E", "T", " ", "s", " ", "=", " ", "'", "a", "\\", "b", "'", ";" >>

\* the statements that follow the CREATE TABLE statement; none of them is
\* changed or deleted by the translator but for numeric -> decimal
Followers ==
    { StatementInsert, StatementUpdate, BlockPlain }

\* the sequences of 1 to n followers
RECURSIVE FollowerLists(_)
FollowerLists(n) ==
    IF n = 0
    THEN { << >> }
    ELSE LET shorter == FollowerLists(n - 1)
         IN  { << f >> : f \in Followers }
                 \cup { Append(fs, f) : fs \in shorter \ { << >> }, f \in Followers }

\* a CREATE TABLE statement terminated by ';', then further statements
PipelineDocuments ==
    { Join(<< "\n" >>, << BlockPlain >> \o fs) : fs \in FollowerLists(MaxBlocks) }

PipelineInit ==
    /\ ppc = "reference"
    /\ reference_statements = << >>
    /\ raw \in PipelineDocuments
    /\ pc = "start"
    /\ sql_content = << >>
    /\ statements = << >>
    /\ current_statement = << >>
    /\ in_string = FALSE
    /\ string_char = "None"
    /\ escape_next = FALSE
    /\ paren_count = 0
    /\ bracket_count = 0
    /\ brace_count = 0
    /\ i = 0
    /\ final_statements = << >>
    /\ filtered_statements = << >>
    /\ origins = << >>
    /\ max_read = -1
    /\ ConvertIdle
    /\ ExecIdle
    /\ TranslateIdle
    /\ MigrateIdle

\* the untranslated text has been split; sql_server_to_mysql.py main,
\* lines 398-419, reads the same text and enters
\* convert_sql_server_to_mysql
TranslateDocument ==
    /\ ppc = "reference"
    /\ Returned
    /\ tpc = "idle"
    /\ reference_statements' = filtered_statements
    /\ source' = raw
    /\ content' = raw
    /\ first_source' = raw
    /\ tpc' = "comments"
    /\ ppc' = "translate"
    /\ UNCHANGED << outside_pipeline, split_state, all_lines, line_index,
                    output_lines, skip_everything, created, converted,
                    application, first_created >>

\* execute_sql_file, lines 480-484: the translated text is read back and
\* split_sql_statements is entered with it
SplitTranslated ==
    /\ ppc = "translate"
    /\ tpc = "done"
    /\ raw' = converted
    /\ pc' = "start"
    /\ sql_content' = << >>
    /\ statements' = << >>
    /\ current_statement' = << >>
    /\ in_string' = FALSE
    /\ string_char' = "None"
    /\ escape_next' = FALSE
    /\ paren_count' = 0
    /\ bracket_count' = 0
    /\ brace_count' = 0
    /\ i' = 0
    /\ final_statements' = << >>
    /\ filtered_statements' = << >>
    /\ origins' = << >>
    /\ max_read' = -1
    /\ ppc' = "final"
    /\ UNCHANGED << outside_pipeline, translate_state, reference_statements >>

PipelineNext ==
    \/ Preprocess
    \/ ScanBackslash
    \/ ScanOpenQuote
    \/ ScanSameQuote
    \/ ScanOtherQuote
    \/ ScanTerminator
    \/ ScanChar
    \/ ScanEnd
    \/ MultiInsertPass
    \/ FilterPass
    \/ TranslateDocument
    \/ StripComments
    \/ ConvertDropTable
    \/ ConvertIdentityInsert
    \/ RemoveLockEscalation
    \/ RemoveCollateAndDbo
    \/ UnwrapUnicode
    \/ ConvertTypes
    \/ ConvertGo
    \/ SplitLines
    \/ FilterLine
    \/ JoinLines
    \/ RewriteTables
    \/ CollapseAndReturn
    \/ SplitTranslated

PipelineSpec ==
    PipelineInit /\ [][PipelineNext]_vars

\* split_sql_statements has returned for the translated text
SplitAfterTranslation ==
    ppc = "final" /\ Returned

\* C21: for a document in which a ';'-terminated CREATE TABLE statement is
\* followed by further statements, none of which the translator deletes,
\* splitting the translated text returns the rewritten CREATE TABLE as a
\* statement of its own and as many statements as splitting the
\* untranslated text.
C21_TranslationKeepsBoundaries ==
    SplitAfterTranslation =>
        /\ filtered_statements # << >>
        /\ filtered_statements[1] = Strip(created[1])
        /\ Len(filtered_statements) = Len(reference_statements)

====
